---- MODULE Spec2Model ----
(***************************************************************************)
(* A model of the MongoDB -> GCS transfer pipeline:                        *)
(*   src/src/mongodb_exporter.py  range partitioning and chunk extraction  *)
(*   src/src/gcs_uploader.py      schema normalisation, write and upload   *)
(*   src/src/progress.py          Redis-backed progress tracking           *)
(*   src/main.py                  orchestrator and per-chunk worker        *)
(***************************************************************************)
EXTENDS Integers, Sequences, FiniteSets, TLC

VARIABLES
    collection,     \* the source collection: a set of documents
    num_chunks,     \* argument of get_id_ranges
    ranges,         \* result of get_id_ranges: sequence of <<start_id, end_id>>
    rpc,            \* position of the range computation
    clock,          \* time.time(), in whole seconds
    redis,          \* the Redis store: key -> hash (field -> value)
    t_job_key,      \* job_key of the ProgressTracker under test
    t_result,       \* value returned by the tracker's last operation
    global_schema,  \* GCSUploader.global_schema of the uploader under test
    batch,          \* the records handed to _clean_records_for_parquet
    cleaned,        \* the records it returned
    schema_before,  \* history: global_schema when the last call began
    npc,            \* position of the uploader under test: "building" a
                    \* batch, "normalized" or "uploaded" after a call
    config,         \* Config: output_format, chunk_size, max_workers, gcs_prefix
    gcs_reachable,  \* whether the GCS endpoint answers during the run
    mpc,            \* position of main()
    m_job_key,      \* job_key of main()'s ProgressTracker
    tasks,          \* chunk_index -> the process_chunk task submitted for it
    temp_files,     \* the files in the local temp/ directory
    bucket,         \* the objects in the GCS bucket
    gcs_calls,      \* chunk_index -> number of upload calls made for it
    consumed,       \* the chunk indices whose future main() has consumed
    m_successful_chunks,    \* main()'s successful_chunks
    m_failed_chunks,        \* main()'s failed_chunks
    schema_info,    \* what export_schema_info returned to main(), if called
    final_stats,    \* what get_progress returned to main(), if called
    u_chunk_data,   \* the argument of the last upload_chunk_to_gcs call made directly
    u_result,       \* what that call returned
    diagnostics     \* the chunk indices _save_diagnostic_info was called for

rangeVars == <<collection, num_chunks, ranges, rpc>>
trackerVars == <<clock, redis, t_job_key, t_result>>
normVars == <<global_schema, batch, cleaned, schema_before, npc>>
jobVars == <<config, gcs_reachable, mpc, m_job_key, tasks, temp_files, bucket, gcs_calls,
             consumed, m_successful_chunks, m_failed_chunks, schema_info,
             final_stats>>

uploadVars == <<u_chunk_data, u_result, diagnostics>>

vars == <<rangeVars, trackerVars, normVars, jobVars, uploadVars>>

(***************************************************************************)
(* Bounds of the model                                                     *)
(***************************************************************************)
MaxTs == 3          \* ObjectId timestamps (seconds) range over 0..MaxTs
MaxLow == 1         \* the 8 low-order bytes of an ObjectId range over 0..MaxLow
MaxRangeChunks == 4 \* get_id_ranges is called with 1..MaxRangeChunks chunks
MaxClock == 1       \* time.time() ranges over 0..MaxClock
MaxTrackerChunks == 6   \* the tracker alone is driven with up to this many chunks
MaxTotalRecords == 2    \* total_records passed to initialize_job
MaxChunks == 2          \* a job is run on inputs giving at most MaxChunks chunks
MaxChunkSize == 3       \* config.chunk_size ranges over 1..MaxChunkSize
MaxWorkers == 2         \* config.max_workers ranges over 1..MaxWorkers
MaxBatch == 4           \* records per batch given to the normalizer alone
MaxUploads == 1         \* upload calls made on one uploader (a worker makes one)
MaxUploadBatch == 2     \* records of a chunk handed to the uploader alone
MaxNumber == 9          \* numeric text parsed by int() and float() lies in -MaxNumber..MaxNumber

(***************************************************************************)
(* ObjectIds and datetimes                                                 *)
(* An ObjectId is 4 bytes of timestamp (seconds) followed by 8 more bytes; *)
(* ObjectIds are ordered bytewise, i.e. lexicographically on (ts, low).    *)
(* A datetime / timedelta is an integer number of microseconds.            *)
(***************************************************************************)
MicrosPerSecond == 1000000

ObjectId(ts, low) == [ts |-> ts, low |-> low]

ObjectIds == {ObjectId(t, l) : t \in 0..MaxTs, l \in 0..MaxLow}

OidLT(a, b) == a.ts < b.ts \/ (a.ts = b.ts /\ a.low < b.low)
OidLE(a, b) == a = b \/ OidLT(a, b)

\* ObjectId.generation_time: the timestamp bytes as a datetime
generation_time(oid) == oid.ts * MicrosPerSecond

\* ObjectId.from_datetime: the datetime's whole seconds, the other bytes zero
from_datetime(t) == ObjectId(t \div MicrosPerSecond, 0)

\* timedelta / int: rounded to the nearest microsecond, ties to even
timedelta_div(td, n) ==
    LET q == td \div n
        r == td % n
    IN  IF 2 * r > n \/ (2 * r = n /\ q % 2 = 1) THEN q + 1 ELSE q

(***************************************************************************)
(* MongoDBExporter.get_id_ranges                                           *)
(***************************************************************************)
\* the document with the least / greatest _id (find().sort(...).limit(1))
min_doc(coll) == CHOOSE d \in coll : \A e \in coll : OidLE(d._id, e._id)
max_doc(coll) == CHOOSE d \in coll : \A e \in coll : OidLE(e._id, d._id)

\* variant: the last range ends at the maximum's second itself
LastEndMutant(current_time, chunk_duration, i, n, max_timestamp) ==
    IF i < n - 1 THEN current_time + chunk_duration ELSE max_timestamp

\* end_time of iteration i of the loop
end_time_of(current_time, chunk_duration, i, n, max_timestamp) ==
    IF i < n - 1 THEN current_time + chunk_duration
                 ELSE max_timestamp + MicrosPerSecond

RECURSIVE range_loop(_, _, _, _, _, _)
range_loop(i, n, current_time, chunk_duration, max_timestamp, acc) ==
    IF i >= n THEN acc
    ELSE LET start_time == current_time
             end_time == end_time_of(current_time, chunk_duration, i, n,
                                     max_timestamp)
             start_id == from_datetime(start_time)
             end_id == from_datetime(end_time)
         IN  range_loop(i + 1, n, end_time, chunk_duration, max_timestamp,
                        Append(acc, <<start_id, end_id>>))

get_id_ranges(coll, n) ==
    LET min_id == min_doc(coll)._id
        max_id == max_doc(coll)._id
        min_timestamp == generation_time(min_id)
        max_timestamp == generation_time(max_id)
        time_diff == max_timestamp - min_timestamp
        chunk_duration == timedelta_div(time_diff, n)
    IN  range_loop(0, n, min_timestamp, chunk_duration, max_timestamp, <<>>)

\* the documents a range query {_id: {$gte: start_id, $lt: end_id}} matches
InRange(oid, rng) == OidLE(rng[1], oid) /\ OidLT(oid, rng[2])

(***************************************************************************)
(* Python values                                                           *)
(* A value is a record: ty its Python type, n its number (bool 0/1, int    *)
(* its value, float its value in tenths, dict its number of items), s its  *)
(* text (str: the string, dict: its JSON text, datetime: its date), el the *)
(* elements of a list.                                                     *)
(***************************************************************************)
PyValue(ty, n, s, el) == [ty |-> ty, n |-> n, s |-> s, el |-> el]

PyNone == PyValue("NoneType", 0, "", <<>>)
PyBool(b) == PyValue("bool", IF b THEN 1 ELSE 0, "", <<>>)
PyInt(i) == PyValue("int", i, "", <<>>)
PyFloat(tenths) == PyValue("float", tenths, "", <<>>)
PyStr(s) == PyValue("str", 0, s, <<>>)
PyList(el) == PyValue("list", 0, "", el)
PyDict(n, json) == PyValue("dict", n, json, <<>>)
PyDatetime(date) == PyValue("datetime", 0, date, <<>>)

Digit == <<"0", "1", "2", "3", "4", "5", "6", "7", "8", "9">>

\* str(i) of an int
RECURSIVE NatText(_)
NatText(i) == IF i < 10 THEN Digit[i + 1]
              ELSE NatText(i \div 10) \o Digit[(i % 10) + 1]
IntText(i) == IF i < 0 THEN "-" \o NatText(0 - i) ELSE NatText(i)

\* repr of a float given in tenths: 30 -> "3.0", -25 -> "-2.5"
FloatText(t) ==
    LET a == IF t < 0 THEN 0 - t ELSE t
    IN  (IF t < 0 THEN "-" ELSE "") \o NatText(a \div 10) \o "." \o Digit[(a % 10) + 1]

\* value.isoformat() and str(value) of a datetime at midnight
isoformat(v) == v.s \o "T00:00:00"
DatetimeStr(v) == v.s \o " 00:00:00"

\* hasattr(value, 'isoformat')
has_isoformat(v) == v.ty = "datetime"

\* str(value)
py_str(v) ==
    CASE v.ty = "NoneType" -> "None"
      [] v.ty = "bool" -> (IF v.n = 1 THEN "True" ELSE "False")
      [] v.ty = "int" -> IntText(v.n)
      [] v.ty = "float" -> (IF v.s = "" THEN FloatText(v.n) ELSE v.s)
      [] v.ty = "str" -> v.s
      [] v.ty = "datetime" -> DatetimeStr(v)
      [] OTHER -> v.s

\* json.dumps(value, default=str) of a value that is not a list
json_scalar(v) ==
    CASE v.ty = "NoneType" -> "null"
      [] v.ty = "bool" -> (IF v.n = 1 THEN "true" ELSE "false")
      [] v.ty = "int" -> IntText(v.n)
      [] v.ty = "float" -> (IF v.s = "" THEN FloatText(v.n)
                            ELSE IF v.s = "inf" THEN "Infinity" ELSE "NaN")
      [] v.ty = "str" -> "\"" \o v.s \o "\""
      [] v.ty = "dict" -> v.s
      [] OTHER -> "\"" \o py_str(v) \o "\""

RECURSIVE json_dumps(_)
RECURSIVE json_items(_, _)
json_items(el, i) ==
    IF i > Len(el) THEN ""
    ELSE (IF i > 1 THEN ", " ELSE "") \o json_dumps(el[i]) \o json_items(el, i + 1)
json_dumps(v) ==
    IF v.ty = "list" THEN "[" \o json_items(v.el, 1) \o "]" ELSE json_scalar(v)

(***************************************************************************)
(* GCSUploader: schema normalisation                                       *)
(* A record is a function from field names to Python values.               *)
(***************************************************************************)
SampleSize == 500       \* records sampled per chunk
ListInspect == 10       \* list items inspected by _get_detailed_type
UnrankedPriority == 999 \* priority of a strategy missing from the table

\* record.get(field)
record_get(record, field) ==
    IF field \in DOMAIN record THEN record[field] ELSE PyNone

\* seq[:n]
Prefix(seq, n) == SubSeq(seq, 1, IF Len(seq) < n THEN Len(seq) ELSE n)

RECURSIVE _get_detailed_type(_)
_get_detailed_type(value) ==
    CASE value.ty = "NoneType" -> "null"
      [] value.ty = "bool" -> "boolean"
      [] value.ty = "int" -> "integer"
      [] value.ty = "float" -> "float"
      [] value.ty = "str" -> "string"
      [] value.ty = "list" ->
            IF value.el = <<>> THEN "empty_list"
            ELSE LET items == Prefix(value.el, ListInspect)
                     inner_types == {_get_detailed_type(items[i]) :
                                        i \in 1..Len(items)}
                 IN  IF Cardinality(inner_types) = 1
                     THEN "list_of_" \o (CHOOSE t \in inner_types : TRUE)
                     ELSE "mixed_list"
      [] value.ty = "dict" -> (IF value.n = 0 THEN "empty_dict" ELSE "object")
      [] value.ty = "datetime" -> "datetime"
      [] OTHER -> "unknown"

ScalarTypeNames ==
    {"null", "boolean", "integer", "float", "string", "empty_list",
     "mixed_list", "empty_dict", "object", "datetime", "unknown"}

\* t.startswith('list_'): the tags "list_of_<inner>", to two levels of nesting
starts_with_list(t) ==
    \E x \in ScalarTypeNames :
        t = "list_of_" \o x \/ t = "list_of_list_of_" \o x

primitive_types == {"boolean", "integer", "float", "string"}
\* variant: an object is not a complex type
ComplexTypesNoObject == {"mixed_list", "empty_dict", "empty_list"}

complex_types == {"object", "mixed_list", "empty_dict", "empty_list"}

\* variant: a share of exactly 70% dominates too
DominatesAtLeast(count, total_non_null) == 10 * count >= 7 * total_non_null

\* variant: a share above 60% dominates
DominatesAboveSixty(count, total_non_null) == 10 * count > 6 * total_non_null

\* type_counts[dominant_type] / total_non_null > 0.7
dominates(count, total_non_null) == 10 * count > 7 * total_non_null

\* _create_normalization_strategies, the analysis of one field: the number of
\* sampled values of each detailed type, nulls apart
field_types(sample_records, field) ==
    LET tags == {_get_detailed_type(record_get(sample_records[i], field)) :
                    i \in 1..Len(sample_records)} \ {"null"}
    IN  [t \in tags |->
            Cardinality({i \in 1..Len(sample_records) :
                _get_detailed_type(record_get(sample_records[i], field)) = t})]

field_null_count(sample_records, field) ==
    Cardinality({i \in 1..Len(sample_records) :
                    record_get(sample_records[i], field) = PyNone})

_determine_field_strategy(field_name, types, total_count, null_count) ==
    LET total_non_null == total_count - null_count
        type_counts == [t \in DOMAIN types \cap primitive_types |-> types[t]]
    IN  IF total_non_null = 0 THEN "null"
        ELSE IF field_name = "_id" THEN "string"
        ELSE IF Cardinality(DOMAIN types) = 1 THEN
            LET single_type == CHOOSE t \in DOMAIN types : TRUE
            IN  IF single_type \in primitive_types THEN single_type
                ELSE IF starts_with_list(single_type) THEN "json_array"
                ELSE IF single_type \in {"object", "empty_dict"} THEN "json_object"
                ELSE IF single_type = "datetime" THEN "iso_string"
                ELSE "string"
        ELSE IF /\ DOMAIN type_counts # {}
                /\ LET dominant_type ==
                           CHOOSE t \in DOMAIN type_counts :
                               \A u \in DOMAIN type_counts :
                                   type_counts[u] <= type_counts[t]
                   IN  dominates(type_counts[dominant_type], total_non_null)
             THEN "mostly_" \o
                  (CHOOSE t \in DOMAIN type_counts :
                       \A u \in DOMAIN type_counts :
                           type_counts[u] <= type_counts[t])
        ELSE IF \/ \E t \in DOMAIN types : t \in complex_types
                \/ \E t \in DOMAIN types : starts_with_list(t)
             THEN "json_string"
        ELSE "string"

_create_normalization_strategies(records, all_fields) ==
    LET sample_records == Prefix(records, SampleSize)
    IN  [field \in all_fields |->
            _determine_field_strategy(field,
                field_types(sample_records, field),
                Len(sample_records),
                field_null_count(sample_records, field))]

strategy_priority ==
    [json_string |-> 1, string |-> 2, mostly_string |-> 3, mostly_float |-> 4,
     mostly_integer |-> 5, mostly_boolean |-> 6, iso_string |-> 7,
     json_object |-> 8, json_array |-> 9, float |-> 10, integer |-> 11,
     boolean |-> 12]

priority_of(strategy) ==
    IF strategy \in DOMAIN strategy_priority THEN strategy_priority[strategy]
    ELSE UnrankedPriority

\* variant: the stored strategy is kept
ResolveKeepsCurrent(current_strategy, new_strategy) == current_strategy

\* variant: the larger priority number wins
ResolvePrefersSpecific(current_strategy, new_strategy) ==
    IF priority_of(current_strategy) >= priority_of(new_strategy)
    THEN current_strategy ELSE new_strategy

_resolve_schema_conflict(current_strategy, new_strategy) ==
    IF priority_of(current_strategy) <= priority_of(new_strategy)
    THEN current_strategy ELSE new_strategy

\* field_strategies.get(field, 'string')
strategy_get(field_strategies, field) ==
    IF field \in DOMAIN field_strategies THEN field_strategies[field] ELSE "string"

update_global_schema(schema, fields, field_strategies) ==
    [field \in DOMAIN schema \cup fields |->
        IF field \notin fields THEN schema[field]
        ELSE IF field \notin DOMAIN schema THEN strategy_get(field_strategies, field)
        ELSE IF schema[field] # strategy_get(field_strategies, field)
             THEN _resolve_schema_conflict(schema[field],
                                           strategy_get(field_strategies, field))
        ELSE schema[field]]

(***************************************************************************)
(* GCSUploader: conversions.  A conversion that raises yields PyRaise(e).  *)
(***************************************************************************)
PyRaise(e) == PyValue("<raise>", 0, e, <<>>)
Raised(v) == v.ty = "<raise>"

PyFloatInf == PyValue("float", 0, "inf", <<>>)
PyFloatNan == PyValue("float", 0, "nan", <<>>)
IsFinite(v) == v.s = ""

\* float(s) of a string: decimal integers and one-decimal floats in the
\* modelled range, "inf" and "nan"; ValueError otherwise
float_of_str(s) ==
    IF \E i \in (0 - MaxNumber)..MaxNumber : IntText(i) = s
    THEN PyFloat(10 * (CHOOSE i \in (0 - MaxNumber)..MaxNumber : IntText(i) = s))
    ELSE IF \E t \in (0 - 10 * MaxNumber)..(10 * MaxNumber) : FloatText(t) = s
    THEN PyFloat(CHOOSE t \in (0 - 10 * MaxNumber)..(10 * MaxNumber) :
                     FloatText(t) = s)
    ELSE IF s = "inf" THEN PyFloatInf
    ELSE IF s = "nan" THEN PyFloatNan
    ELSE PyRaise("ValueError")

\* int(x) of a float: truncation toward zero
int_of_float(v) ==
    IF v.s = "inf" THEN PyRaise("OverflowError")
    ELSE IF v.s = "nan" THEN PyRaise("ValueError")
    ELSE PyInt(IF v.n < 0 THEN 0 - ((0 - v.n) \div 10) ELSE v.n \div 10)

\* str.lower() on the modelled strings
lower(s) ==
    CASE s = "True" -> "true"
      [] s = "TRUE" -> "true"
      [] s = "Yes" -> "yes"
      [] s = "On" -> "on"
      [] OTHER -> s

\* bool(value)
truthy(v) ==
    CASE v.ty = "NoneType" -> FALSE
      [] v.ty \in {"bool", "int"} -> v.n # 0
      [] v.ty = "float" -> (v.n # 0 \/ ~IsFinite(v))
      [] v.ty = "str" -> v.s # ""
      [] v.ty = "list" -> v.el # <<>>
      [] v.ty = "dict" -> v.n # 0
      [] OTHER -> TRUE

_safe_string_conversion(value) ==
    IF value.ty = "str" THEN value
    ELSE IF value.ty \in {"list", "dict"} THEN PyStr(json_dumps(value))
    ELSE IF has_isoformat(value) THEN PyStr(isoformat(value))
    ELSE PyStr(py_str(value))

_safe_boolean_conversion(value) ==
    IF value.ty = "bool" THEN value
    ELSE IF value.ty = "str"
         THEN PyBool(lower(value.s) \in {"true", "1", "yes", "on"})
    ELSE PyBool(truthy(value))

_safe_integer_conversion(value) ==
    IF value.ty \in {"int", "bool"} THEN value
    ELSE IF value.ty = "float" THEN int_of_float(value)
    ELSE IF value.ty = "str" THEN
        LET f == float_of_str(value.s)
            i == IF Raised(f) THEN f ELSE int_of_float(f)
        IN  IF Raised(i) /\ i.s = "ValueError" THEN PyInt(0) ELSE i
    ELSE PyInt(0)

_safe_float_conversion(value) ==
    IF value.ty \in {"int", "bool"} THEN PyFloat(10 * value.n)
    ELSE IF value.ty = "float" THEN value
    ELSE IF value.ty = "str" THEN
        LET f == float_of_str(value.s)
        IN  IF Raised(f) THEN PyFloat(0) ELSE f
    ELSE PyFloat(0)

_safe_json_conversion(value) == PyStr(json_dumps(value))

\* variant: every value is rewritten to None
ApplyNullToNone(value, strategy, field_name) == PyNone

_apply_normalization_strategy(value, strategy, field_name) ==
    IF value = PyNone THEN PyNone
    ELSE
    LET r == CASE strategy = "null" -> PyNone
               [] strategy \in {"string", "mostly_string"} ->
                      _safe_string_conversion(value)
               [] strategy \in {"boolean", "mostly_boolean"} ->
                      _safe_boolean_conversion(value)
               [] strategy \in {"integer", "mostly_integer"} ->
                      _safe_integer_conversion(value)
               [] strategy \in {"float", "mostly_float"} ->
                      _safe_float_conversion(value)
               [] strategy = "json_array" ->
                      (IF value.ty = "list" THEN _safe_json_conversion(value)
                       ELSE PyStr(py_str(value)))
               [] strategy = "json_object" ->
                      (IF value.ty = "dict" THEN _safe_json_conversion(value)
                       ELSE PyStr(py_str(value)))
               [] strategy = "json_string" ->
                      (IF value.ty \in {"list", "dict"}
                       THEN _safe_json_conversion(value)
                       ELSE PyStr(py_str(value)))
               [] strategy = "iso_string" ->
                      (IF has_isoformat(value) THEN PyStr(isoformat(value))
                       ELSE PyStr(py_str(value)))
               [] OTHER -> _safe_string_conversion(value)
    IN  IF Raised(r) THEN PyStr(py_str(value)) ELSE r

(***************************************************************************)
(* GCSUploader._clean_records_for_parquet: the cleaned records and the     *)
(* instance's global_schema after the call                                 *)
(***************************************************************************)
all_fields_of(records) == UNION {DOMAIN records[i] : i \in 1..Len(records)}

\* variant: only the fields of the batch are written
KnownFieldsBatchOnly(schema, all_fields) == all_fields

all_known_fields(schema, all_fields) == DOMAIN schema \cup all_fields

_clean_records_for_parquet(records, schema) ==
    IF records = <<>> THEN [cleaned |-> records, schema |-> schema]
    ELSE
    LET all_fields == all_fields_of(records)
        field_strategies == _create_normalization_strategies(records, all_fields)
        new_schema == update_global_schema(schema, all_fields, field_strategies)
        effective_strategies == [field \in all_fields |-> new_schema[field]]
        strategy_for(field) ==
            IF field \in DOMAIN effective_strategies
            THEN effective_strategies[field] ELSE new_schema[field]
    IN  [cleaned |->
            [i \in 1..Len(records) |->
                [field \in all_known_fields(new_schema, all_fields) |->
                    _apply_normalization_strategy(
                        record_get(records[i], field), strategy_for(field), field)]],
         schema |-> new_schema]

(***************************************************************************)
(* MongoDBExporter.export_chunk                                            *)
(* A document is [_id: ObjectId, body: record of its other fields].        *)
(***************************************************************************)
MemCheckInterval == 2   \* memory is sampled every MemCheckInterval records: the
                        \* 1000 of line 131, scaled to the collections of the model

\* str(ObjectId) and ObjectId(str): the text names the twelve bytes
oid_str(oid) == "oid:" \o NatText(oid.ts) \o ":" \o NatText(oid.low)

BoundaryIds == {ObjectId(t, l) : t \in 0..(MaxTs + 1), l \in 0..MaxLow}

ObjectId_of_str(text) == CHOOSE oid \in BoundaryIds : oid_str(oid) = text

\* the documents of a set in ascending _id order (the cursor's order)
RECURSIVE cursor_order(_)
cursor_order(docs) ==
    IF docs = {} THEN <<>>
    ELSE LET first == min_doc(docs)
         IN  <<first>> \o cursor_order(docs \ {first})

\* doc["_id"] = str(doc["_id"])
exported_record(doc) ==
    [f \in DOMAIN doc.body \cup {"_id"} |->
        IF f = "_id" THEN PyStr(oid_str(doc._id)) ELSE doc.body[f]]

\* the loop over the cursor: every record is appended; after a record whose
\* count is a multiple of the interval the loop breaks when memory is over the limit
RECURSIVE export_loop(_, _, _, _)
export_loop(docs, i, records, memory_over) ==
    IF i > Len(docs) THEN records
    ELSE LET next == Append(records, exported_record(docs[i]))
         IN  IF Len(next) % MemCheckInterval = 0 /\ memory_over THEN next
             ELSE export_loop(docs, i + 1, next, memory_over)

export_chunk(coll, start_id, end_id, chunk_index, cursor_ok, memory_over) ==
    IF cursor_ok THEN
        LET docs == cursor_order({d \in coll : InRange(d._id, <<start_id, end_id>>)})
            records == export_loop(docs, 1, <<>>, memory_over)
        IN  [chunk_index |-> chunk_index,
             records |-> records,
             record_count |-> Len(records),
             start_id |-> oid_str(start_id),
             end_id |-> oid_str(end_id),
             success |-> TRUE]
    ELSE [chunk_index |-> chunk_index,
          records |-> <<>>,
          record_count |-> 0,
          start_id |-> oid_str(start_id),
          end_id |-> oid_str(end_id),
          success |-> FALSE,
          error |-> "cursor error"]

(***************************************************************************)
(* GCSUploader.upload_chunk_to_gcs                                         *)
(***************************************************************************)
PathWidth == 6      \* chunk_{index:06d}

RECURSIVE zero_pad(_, _)
zero_pad(text_digits, i) ==
    \* text_digits = <<text, number of digits>>
    IF text_digits[2] >= i THEN text_digits[1]
    ELSE zero_pad(<<"0" \o text_digits[1], text_digits[2] + 1>>, i)

RECURSIVE num_digits(_)
num_digits(i) == IF i < 10 THEN 1 ELSE 1 + num_digits(i \div 10)

\* variant: the index is written without padding
ChunkFileNameUnpadded(chunk_index, ext) ==
    "chunk_" \o NatText(chunk_index) \o "." \o ext

\* f"chunk_{chunk_index:06d}.{ext}"
chunk_file_name(chunk_index, ext) ==
    "chunk_" \o zero_pad(<<NatText(chunk_index), num_digits(chunk_index)>>, PathWidth)
             \o "." \o ext

\* json.dump(record, f) with the default encoder accepts these values only
RECURSIVE json_serializable(_)
json_serializable(v) ==
    \/ v.ty \in {"NoneType", "bool", "int", "float", "str", "dict"}
    \/ /\ v.ty = "list"
       /\ \A i \in 1..Len(v.el) : json_serializable(v.el[i])

record_serializable(record) == \A f \in DOMAIN record : json_serializable(record[f])

\* the failure result; its gcs_path, None, is written as the empty text
upload_failure(chunk_index, message) ==
    [chunk_index |-> chunk_index, gcs_path |-> "", file_size_mb |-> 0,
     upload_duration |-> 0, success |-> FALSE, error |-> message]

\* variant: the empty chunk is not told apart
EmptyCheckSkipped(records) == FALSE

no_records(records) == records = <<>>

\* The call on an uploader whose global_schema is `schema`.  The outcome
\* gives the returned result, the uploader's schema afterwards, the local
\* file left on disk (or {}), the object written to the bucket (or {}), the
\* number of calls made to the bucket and whether diagnostics were saved.
\*   write_ok   the file could be written (no I/O or conversion error)
\*   partial    a failed Parquet write left a file behind
\*   gcs_ok     blob.upload_from_filename succeeded
upload_chunk_to_gcs(schema, chunk_data, output_format, gcs_prefix, write_ok, partial, gcs_ok) ==
    LET chunk_index == chunk_data.chunk_index
        records == chunk_data.records
        ext == IF output_format = "parquet" THEN "parquet" ELSE "jsonl"
        file_path == "temp/" \o chunk_file_name(chunk_index, ext)
        gcs_path == gcs_prefix \o chunk_file_name(chunk_index, ext)
        clean == _clean_records_for_parquet(records, schema)
        schema_after == IF output_format = "parquet" THEN clean.schema ELSE schema
        content == IF output_format = "parquet" THEN clean.cleaned ELSE records
        written ==
            IF output_format = "parquet" THEN write_ok
            ELSE write_ok /\ \A i \in 1..Len(records) : record_serializable(records[i])
        file_left_on_error ==
            IF output_format = "parquet" THEN partial ELSE TRUE
    IN  IF no_records(records) THEN
            [result |-> upload_failure(chunk_index, "No records to upload"),
             schema |-> schema, files |-> {}, objects |-> {}, calls |-> 0,
             diagnostics |-> FALSE]
        ELSE IF ~written THEN
            [result |-> upload_failure(chunk_index, "serialization error"),
             schema |-> schema_after,
             files |-> IF file_left_on_error THEN {file_path} ELSE {},
             objects |-> {}, calls |-> 0,
             diagnostics |-> (output_format = "parquet")]
        ELSE IF ~gcs_ok THEN
            [result |-> upload_failure(chunk_index, "upload error"),
             schema |-> schema_after, files |-> {file_path}, objects |-> {},
             calls |-> 1, diagnostics |-> FALSE]
        ELSE
            [result |-> [chunk_index |-> chunk_index, gcs_path |-> gcs_path,
                         file_size_mb |-> Len(content), upload_duration |-> 0,
                         success |-> TRUE],
             schema |-> schema_after, files |-> {},
             objects |-> {[path |-> gcs_path, content |-> content,
                           strategies |-> schema_after]},
             calls |-> 1, diagnostics |-> FALSE]

\* _generate_bigquery_schema
strategy_to_bq_type(strategy) ==
    CASE strategy \in {"string", "mostly_string", "json_string", "json_object",
                       "json_array", "null"} -> "STRING"
      [] strategy \in {"integer", "mostly_integer"} -> "INTEGER"
      [] strategy \in {"float", "mostly_float"} -> "FLOAT"
      [] strategy \in {"boolean", "mostly_boolean"} -> "BOOLEAN"
      [] strategy = "iso_string" -> "TIMESTAMP"
      [] OTHER -> "STRING"

_generate_bigquery_schema(schema) ==
    {[name |-> f, type |-> strategy_to_bq_type(schema[f]), mode |-> "NULLABLE"] :
        f \in DOMAIN schema}

export_schema_info(schema) ==
    [total_fields |-> Cardinality(DOMAIN schema),
     field_strategies |-> schema,
     bigquery_schema |-> _generate_bigquery_schema(schema)]

(***************************************************************************)
(* Redis                                                                   *)
(* A key is the job key "mongo2gcs:<t>", optionally followed by a suffix   *)
(* (":chunk:<id>", ":total", ":processed", ":failed").  A hash maps field  *)
(* names to values; HSET adds or overwrites the given fields only.         *)
(***************************************************************************)
EmptyMap == [x \in {} |-> x]

JobKey(t) == [job |-> t, kind |-> "job", chunk |-> 0]
\* variant: every chunk of a job shares one key
ChunkKeyShared(t, chunk_id) == [job |-> t, kind |-> "chunk", chunk |-> 0]

ChunkKey(t, chunk_id) == [job |-> t, kind |-> "chunk", chunk |-> chunk_id]

\* HGETALL: the hash at a key, empty when the key does not exist
hgetall(store, key) == IF key \in DOMAIN store THEN store[key] ELSE EmptyMap

\* HSET key mapping
hset(store, key, mapping) ==
    LET old == hgetall(store, key)
        new == [f \in DOMAIN old \cup DOMAIN mapping |->
                    IF f \in DOMAIN mapping THEN mapping[f] ELSE old[f]]
    IN  [k \in DOMAIN store \cup {key} |-> IF k = key THEN new ELSE store[k]]

\* dict.get(field, default)
dict_get(d, field, default) == IF field \in DOMAIN d THEN d[field] ELSE default

\* Redis stores text: redis-py writes an int as its decimal digits and a float
\* as its repr; with decode_responses=True a read returns that text
redis_int(i) == IntText(i)
redis_float(seconds) == FloatText(10 * seconds)

\* int(text) and float(text) of a value read back (whole seconds for floats)
int_of_text(text) == CHOOSE i \in 0..MaxNumber : redis_int(i) = text
float_of_text(text) == CHOOSE i \in 0..MaxNumber : redis_float(i) = text

(***************************************************************************)
(* ProgressTracker                                                         *)
(***************************************************************************)
\* __init__: self.job_key = f"mongo2gcs:{int(time.time())}"
tracker_job_key(now) == now

initialize_job(store, job_key, total_chunks, total_records, now) ==
    hset(store, JobKey(job_key),
         [total_chunks |-> redis_int(total_chunks),
          total_records |-> redis_int(total_records),
          start_time |-> redis_float(now), status |-> "running"])

\* chunk_info = {"status": status, "updated_at": time.time(), **kwargs}
update_chunk_status(store, job_key, chunk_id, status, kwargs, now) ==
    hset(store, ChunkKey(job_key, chunk_id),
         [f \in {"status", "updated_at"} \cup DOMAIN kwargs |->
             IF f \in DOMAIN kwargs THEN kwargs[f]
             ELSE IF f = "status" THEN status ELSE redis_float(now)])

\* the status get_progress reads for one chunk; "pending" when the hash has no
\* status, "" when the key does not exist (the chunk is then not counted)
chunk_status_read(store, job_key, chunk_id) ==
    LET chunk_info == hgetall(store, ChunkKey(job_key, chunk_id))
    IN  IF chunk_info = EmptyMap THEN ""
        ELSE dict_get(chunk_info, "status", "pending")

\* variant: every completed chunk is counted, whatever is asked
CountsCompletedAsFailed(status, wanted) == status = "completed"

status_counts_as(status, wanted) == status = wanted

\* progress_percentage is the quotient pct_num / pct_den
get_progress(store, job_key) ==
    LET job_info == hgetall(store, JobKey(job_key))
    IN  IF job_info = EmptyMap THEN EmptyMap
        ELSE
        LET total_chunks == int_of_text(dict_get(job_info, "total_chunks", "0"))
            completed_chunks ==
                Cardinality({c \in 0..(total_chunks - 1) :
                    status_counts_as(chunk_status_read(store, job_key, c),
                                     "completed")})
            failed_chunks ==
                Cardinality({c \in 0..(total_chunks - 1) :
                    status_counts_as(chunk_status_read(store, job_key, c),
                                     "failed")})
        IN  [total_chunks |-> total_chunks,
             completed_chunks |-> completed_chunks,
             failed_chunks |-> failed_chunks,
             pending_chunks |-> total_chunks - completed_chunks - failed_chunks,
             pct_num |-> IF total_chunks > 0 THEN completed_chunks * 100 ELSE 0,
             pct_den |-> IF total_chunks > 0 THEN total_chunks ELSE 1,
             start_time |-> float_of_text(dict_get(job_info, "start_time", "0.0")),
             total_records |-> int_of_text(dict_get(job_info, "total_records", "0"))]

(***************************************************************************)
(* Specification of the range partitioner alone: any collection whose      *)
(* least and greatest identifiers are given, any number of chunks.         *)
(***************************************************************************)
BareDoc(oid) == [_id |-> oid, body |-> <<>>]

RangesIdle ==
    /\ collection = {}
    /\ num_chunks = 0
    /\ ranges = <<>>
    /\ rpc = "idle"

TrackerIdle ==
    /\ clock = 0
    /\ redis = <<>>
    /\ t_job_key = 0
    /\ t_result = <<>>

NormIdle ==
    /\ global_schema = <<>>
    /\ batch = <<>>
    /\ cleaned = <<>>
    /\ schema_before = <<>>
    /\ npc = "idle"

JobIdle ==
    /\ config = <<>>
    /\ gcs_reachable = TRUE
    /\ mpc = "idle"
    /\ m_job_key = 0
    /\ tasks = <<>>
    /\ temp_files = {}
    /\ bucket = {}
    /\ gcs_calls = <<>>
    /\ consumed = {}
    /\ m_successful_chunks = 0
    /\ m_failed_chunks = 0
    /\ schema_info = <<>>
    /\ final_stats = <<>>

UploadIdle ==
    /\ u_chunk_data = <<>>
    /\ u_result = <<>>
    /\ diagnostics = {}

RangesInit ==
    /\ TrackerIdle
    /\ NormIdle
    /\ JobIdle
    /\ UploadIdle
    /\ \E a, b \in ObjectIds : collection = {BareDoc(a), BareDoc(b)}
    /\ num_chunks \in 1..MaxRangeChunks
    /\ ranges = <<>>
    /\ rpc = "start"

ComputeRanges ==
    /\ rpc = "start"
    /\ ranges' = get_id_ranges(collection, num_chunks)
    /\ rpc' = "done"
    /\ UNCHANGED <<collection, num_chunks, trackerVars, normVars,
                   jobVars, uploadVars>>

RangesNext == ComputeRanges

SpecRanges == RangesInit /\ [][RangesNext]_vars

(***************************************************************************)
(* Specification of one ProgressTracker driven through its methods.  The   *)
(* methods read the clock only to stamp start_time and updated_at, so the  *)
(* clock is drawn once.                                                    *)
(***************************************************************************)
ChunkStatuses == {"completed", "failed"}

TrackerInit ==
    /\ RangesIdle
    /\ NormIdle
    /\ JobIdle
    /\ UploadIdle
    /\ clock \in 0..MaxClock
    /\ t_job_key = tracker_job_key(clock)
    /\ redis = EmptyMap
    /\ t_result = EmptyMap

T_InitializeJob ==
    /\ JobKey(t_job_key) \notin DOMAIN redis
    /\ \E n \in 0..MaxTrackerChunks, r \in 0..MaxTotalRecords :
           redis' = initialize_job(redis, t_job_key, n, r, clock)
    /\ t_result' = EmptyMap
    /\ UNCHANGED <<clock, t_job_key, rangeVars, normVars, jobVars,
                   uploadVars>>

T_UpdateChunkStatus ==
    /\ \E c \in 0..(MaxTrackerChunks - 1), st \in ChunkStatuses :
           redis' = update_chunk_status(redis, t_job_key, c, st, EmptyMap, clock)
    /\ t_result' = EmptyMap
    /\ UNCHANGED <<clock, t_job_key, rangeVars, normVars, jobVars,
                   uploadVars>>

T_GetProgress ==
    /\ t_result' = get_progress(redis, t_job_key)
    /\ UNCHANGED <<clock, redis, t_job_key, rangeVars, normVars,
                   jobVars, uploadVars>>

TrackerNext == T_InitializeJob \/ T_UpdateChunkStatus \/ T_GetProgress

SpecTracker == TrackerInit /\ [][TrackerNext]_vars

\* the status last written for a chunk under the tracker's job key
LastWritten(c) == chunk_status_read(redis, t_job_key, c)

\* C9: after initialize_job(total_chunks=N) and any sequence of
\* update_chunk_status calls through the same tracker, get_progress() reports
\* completed_chunks = number of chunks 0..N-1 last written completed,
\* failed_chunks = number last written failed, pending_chunks = N - completed
\* - failed >= 0 and progress_percentage = 100*completed/N; chunks 0..4
\* completed and chunk 5 failed with N = 6 give completed 5, failed 1,
\* pending 0 (and 83.33 percent).
C9_ProgressCounts ==
    t_result # EmptyMap =>
        LET N == int_of_text(redis[JobKey(t_job_key)].total_chunks)
            done == {c \in 0..(N - 1) : LastWritten(c) = "completed"}
            bad == {c \in 0..(N - 1) : LastWritten(c) = "failed"}
        IN  /\ t_result.total_chunks = N
            /\ t_result.completed_chunks = Cardinality(done)
            /\ t_result.failed_chunks = Cardinality(bad)
            /\ t_result.pending_chunks = N - Cardinality(done) - Cardinality(bad)
            /\ t_result.pending_chunks >= 0
            /\ N > 0 => t_result.pct_num * N = 100 * Cardinality(done) * t_result.pct_den
            /\ (N = 6 /\ done = 0..4 /\ bad = {5}) =>
                   /\ t_result.completed_chunks = 5
                   /\ t_result.failed_chunks = 1
                   /\ t_result.pending_chunks = 0
                   /\ (t_result.pct_num * 100) \div t_result.pct_den = 8333

\* the snapshot of the spec's example: 0..4 completed, 5 failed, out of 6
C9_Witness ==
    /\ t_result # EmptyMap
    /\ t_result.total_chunks = 6
    /\ \A c \in 0..4 : LastWritten(c) = "completed"
    /\ LastWritten(5) = "failed"

(***************************************************************************)
(* Specification of one GCSUploader instance normalising batch after batch *)
(***************************************************************************)
Rec1(f, v) == [x \in {f} |-> v]
Rec2(f, v, g, w) == [x \in {f, g} |-> IF x = f THEN v ELSE w]

\* the records batches are made of: scalar, null, nested and missing values
RecordPool ==
    { Rec1("a", PyInt(1)),
      Rec1("a", PyStr("two")),
      Rec2("a", PyFloat(30), "b", PyNone),
      Rec2("a", PyNone, "b", PyBool(TRUE)),
      Rec2("a", PyDict(1, "{\"k\": 1}"), "c", PyList(<<PyInt(1)>>)) }

NormInit ==
    /\ RangesIdle
    /\ TrackerIdle
    /\ JobIdle
    /\ UploadIdle
    /\ global_schema = EmptyMap
    /\ batch = <<>>
    /\ cleaned = <<>>
    /\ schema_before = EmptyMap
    /\ npc = "building"

\* the caller collects one more record of the next batch
N_AddRecord ==
    /\ \E r \in RecordPool :
        \/ /\ npc = "building"
           /\ Len(batch) < MaxBatch
           /\ batch' = Append(batch, r)
        \/ /\ npc = "normalized"
           /\ batch' = <<r>>
    /\ npc' = "building"
    /\ cleaned' = <<>>
    /\ schema_before' = global_schema
    /\ UNCHANGED <<global_schema, rangeVars, trackerVars, jobVars,
                   uploadVars>>

N_Clean ==
    /\ npc = "building"
    /\ LET res == _clean_records_for_parquet(batch, global_schema)
       IN  /\ cleaned' = res.cleaned
           /\ global_schema' = res.schema
    /\ schema_before' = global_schema
    /\ npc' = "normalized"
    /\ UNCHANGED <<batch, rangeVars, trackerVars, jobVars, uploadVars>>

NormNext == N_AddRecord \/ N_Clean

SpecNorm == NormInit /\ [][NormNext]_vars

\* C4: a field's entry in global_schema, once set, never moves to a less
\* general strategy: after every call its rank number (json_string 1 < string
\* 2 < ... < boolean 12, 'null' last) is at most its rank number before the
\* call, and no field is ever removed.
C4_SchemaOnlyWidens ==
    npc = "normalized" =>
        \A f \in DOMAIN schema_before :
            /\ f \in DOMAIN global_schema
            /\ priority_of(global_schema[f]) <= priority_of(schema_before[f])

\* a call that met a field already in the schema with another strategy:
\* once widening it, once keeping the more general stored one
C4_Witness ==
    /\ npc = "normalized"
    /\ "a" \in DOMAIN schema_before
    /\ schema_before["a"] = "integer"
    /\ global_schema["a"] = "json_string"
    /\ "b" \in DOMAIN schema_before
    /\ schema_before["b"] = "boolean"
    /\ global_schema["b"] = "boolean"
    /\ "b" \in all_fields_of(batch)
    /\ _create_normalization_strategies(batch, all_fields_of(batch))["b"] = "null"

\* C5: for every non-empty batch and every prior global_schema, all records
\* returned by the normalizer have the same field set, equal to (keys of
\* global_schema after the update) union (fields of the batch), a field absent
\* from a record being present with value null.
C5_UniformFieldSet ==
    (npc = "normalized" /\ batch # <<>>) =>
        /\ Len(cleaned) = Len(batch)
        /\ \A i \in 1..Len(cleaned) :
            /\ DOMAIN cleaned[i] = DOMAIN global_schema \cup all_fields_of(batch)
            /\ \A f \in DOMAIN cleaned[i] :
                   f \notin DOMAIN batch[i] => cleaned[i][f] = PyNone

\* a batch whose records differ in their fields, normalised by an uploader
\* whose schema already held a field the batch does not have
C5_Witness ==
    /\ npc = "normalized"
    /\ Len(batch) >= 2
    /\ DOMAIN batch[1] # DOMAIN batch[2]
    /\ \E f \in DOMAIN schema_before : f \notin all_fields_of(batch)
    /\ \E f \in all_fields_of(batch) : f \notin DOMAIN schema_before

\* the strategies computed for the current batch, and the sampled non-null
\* values of one of its fields
batch_strategies == _create_normalization_strategies(batch, all_fields_of(batch))
non_null_samples(f) == {i \in 1..Len(Prefix(batch, SampleSize)) : record_get(batch[i], f) # PyNone}
sampled_types(f) == {_get_detailed_type(batch[i][f]) : i \in non_null_samples(f)}
share_at_most_70(f, t) == 10 * Cardinality({i \in non_null_samples(f) : _get_detailed_type(batch[i][f]) = t}) <= 7 * Cardinality(non_null_samples(f))

\* C13: a field other than _id whose sampled non-null values are of two or
\* more of the types boolean, integer, float and string, none of them the
\* type of more than 70% of the non-null samples, gets strategy 'string';
\* a fresh uploader records that strategy in its global schema.  The values
\* [1, "two", 3.0, None] resolve to 'string'.
C13_MixedScalarsToString ==
    /\ \A f \in all_fields_of(batch) \ {"_id"} :
          ( /\ Cardinality(sampled_types(f)) >= 2
            /\ sampled_types(f) \subseteq {"boolean", "integer", "float", "string"}
            /\ \A t \in sampled_types(f) : share_at_most_70(f, t) )
          => /\ batch_strategies[f] = "string"
             /\ (npc = "normalized" /\ f \notin DOMAIN schema_before) => global_schema[f] = "string"
    /\ _create_normalization_strategies(<<Rec1("a", PyInt(1)), Rec1("a", PyStr("two")), Rec1("a", PyFloat(30)), Rec1("a", PyNone)>>, {"a"})["a"] = "string"

C13_Witness ==
    /\ npc = "normalized"
    /\ schema_before = EmptyMap
    /\ Len(batch) = 4
    /\ \A i \in 1..4 : "a" \in DOMAIN batch[i]
    /\ <<batch[1]["a"], batch[2]["a"], batch[3]["a"], batch[4]["a"]>> = <<PyInt(1), PyStr("two"), PyFloat(30), PyNone>>
    /\ global_schema["a"] = "string"
    /\ cleaned[1]["a"] = PyStr("1")

\* C14: a field other than _id whose sampled non-null values are of more
\* than one type, at least one of them complex (object, mixed_list,
\* empty_dict, empty_list or list_of_*), with no primitive type the type of
\* more than 70% of the non-null samples, gets strategy 'json_string'.  The
\* values [{"k": 1}, "x", None] resolve to 'json_string'.
C14_ComplexMixToJsonString ==
    /\ \A f \in all_fields_of(batch) \ {"_id"} :
          ( /\ Cardinality(sampled_types(f)) >= 2
            /\ \E t \in sampled_types(f) : t \in {"object", "mixed_list", "empty_dict", "empty_list"} \/ starts_with_list(t)
            /\ \A t \in sampled_types(f) \cap {"boolean", "integer", "float", "string"} : share_at_most_70(f, t) )
          => /\ batch_strategies[f] = "json_string"
             /\ (npc = "normalized" /\ f \notin DOMAIN schema_before) => global_schema[f] = "json_string"
    /\ _create_normalization_strategies(<<Rec1("a", PyDict(1, "{\"k\": 1}")), Rec1("a", PyStr("x")), Rec1("a", PyNone)>>, {"a"})["a"] = "json_string"

C14_Witness ==
    /\ npc = "normalized"
    /\ schema_before = EmptyMap
    /\ Len(batch) = 3
    /\ \A i \in 1..3 : "a" \in DOMAIN batch[i]
    /\ <<batch[1]["a"].ty, batch[2]["a"].ty, batch[3]["a"].ty>> = <<"dict", "str", "NoneType">>
    /\ global_schema["a"] = "json_string"
    /\ cleaned[2]["a"] = batch[2]["a"]

(***************************************************************************)
(* Specification of one freshly constructed GCSUploader (global_schema =   *)
(* {} at gcs_uploader.py:29) normalising one batch of scalar records.      *)
(***************************************************************************)
MaxFreshBatch == 4

Rec3(f, v, g, w, h, x) == [y \in {f, g, h} |-> IF y = f THEN v ELSE IF y = g THEN w ELSE x]

\* records of scalar values, with and without the primary-key field
FreshPool ==
    { Rec3("a", PyInt(1), "b", PyStr("x"), "c", PyBool(TRUE)),
      Rec3("a", PyInt(2), "b", PyStr("y"), "c", PyBool(FALSE)),
      Rec3("a", PyFloat(25), "b", PyStr("1"), "c", PyBool(TRUE)),
      Rec2("_id", PyInt(7), "a", PyInt(1)),
      Rec2("_id", PyStr("x7"), "a", PyInt(2)),
      Rec1("a", PyFloatInf) }

FreshBatches == UNION {[1..n -> FreshPool] : n \in 0..MaxFreshBatch}

FreshInit ==
    /\ RangesIdle
    /\ TrackerIdle
    /\ JobIdle
    /\ UploadIdle
    /\ global_schema = EmptyMap
    /\ batch \in FreshBatches
    /\ cleaned = <<>>
    /\ schema_before = EmptyMap
    /\ npc = "building"

F_Clean ==
    /\ npc = "building"
    /\ \E res \in {_clean_records_for_parquet(batch, global_schema)} :
           /\ cleaned' = res.cleaned
           /\ global_schema' = res.schema
    /\ schema_before' = global_schema
    /\ npc' = "normalized"
    /\ UNCHANGED <<batch, rangeVars, trackerVars, jobVars, uploadVars>>

FreshNext == F_Clean

SpecFresh == FreshInit /\ [][FreshNext]_vars

\* every record has every field, and each field holds one scalar type
uniform_batch(records) ==
    /\ records # <<>>
    /\ \A i \in 1..Len(records) : DOMAIN records[i] = all_fields_of(records)
    /\ \A f \in all_fields_of(records) : \E ty \in {"bool", "int", "float", "str"} :
           \A i \in 1..Len(records) : (records[i][f].ty = ty /\ (ty = "float" => IsFinite(records[i][f])))

\* the primary-key field, where present, holds strings
string_keys(records) == \A i \in 1..Len(records) : "_id" \in DOMAIN records[i] => records[i]["_id"].ty = "str"

MaxSamples == 10    \* records of such a batch

\* the batch: the field a of its records holds ints integers, then strs
\* strings, then dicts objects, then nulls None
sample_batch(ints, strs, dicts, nulls) ==
    [i \in 1..(ints + strs + dicts + nulls) |->
        Rec1("a", IF i <= ints THEN PyInt(1)
                  ELSE IF i <= ints + strs THEN PyStr("two")
                  ELSE IF i <= ints + strs + dicts THEN PyDict(1, "{\"k\": 1}")
                  ELSE PyNone)]

SamplesInit ==
    /\ RangesIdle
    /\ TrackerIdle
    /\ JobIdle
    /\ UploadIdle
    /\ global_schema = EmptyMap
    /\ \E ints, strs, dicts, nulls \in 0..MaxSamples :
           /\ ints + strs + dicts + nulls \in 1..MaxSamples
           /\ batch = sample_batch(ints, strs, dicts, nulls)
    /\ cleaned = <<>>
    /\ schema_before = EmptyMap
    /\ npc = "building"

SpecSamples == SamplesInit /\ [][FreshNext]_vars

\* C28: for a field other than _id with more than one sampled non-null type
\* the strategy is mostly_T exactly when a primitive type T is the type of
\* strictly more than 70% of the non-null samples (10 * count(T) > 7 *
\* non_null; exactly 70% does not qualify), whether or not complex types are
\* present; otherwise it is json_string if a complex type is present and
\* string if not.
C28_SeventyPercentRule ==
    (npc = "normalized" /\ Cardinality(sampled_types("a")) > 1) =>
        LET dominant == {t \in sampled_types("a") \cap {"boolean", "integer", "float", "string"} : ~share_at_most_70("a", t)}
            complex == {t \in sampled_types("a") : t \in {"object", "mixed_list", "empty_dict", "empty_list"} \/ starts_with_list(t)}
        IN  /\ Cardinality(dominant) <= 1
            /\ global_schema["a"] =
                  IF dominant # {} THEN "mostly_" \o (CHOOSE t \in dominant : TRUE)
                  ELSE IF complex # {} THEN "json_string" ELSE "string"

\* seven integers and three objects: exactly 70% does not qualify
C28_Witness ==
    /\ npc = "normalized"
    /\ batch = sample_batch(7, 0, 3, 0)
    /\ global_schema["a"] = "json_string"
    /\ cleaned[1]["a"] = PyStr("1")

(***************************************************************************)
(* Specification of a fresh GCSUploader normalising a batch longer than    *)
(* the sampled prefix: SampleSize records with one value in the field a,   *)
(* then a few records of any kind.                                         *)
(***************************************************************************)
MaxTail == 2        \* records after the sampled prefix

\* the value of the field a in the sampled records
HeadValues == {PyNone, PyInt(1), PyStr("two"), PyBool(TRUE)}

\* the records after them
TailPool ==
    { Rec1("a", PyInt(2)), Rec1("a", PyStr("x")), Rec1("a", PyNone),
      Rec1("b", PyInt(1)), Rec2("a", PyFloat(25), "b", PyNone) }

long_batch(head, tail) == [i \in 1..(SampleSize + Len(tail)) |-> IF i <= SampleSize THEN Rec1("a", head) ELSE tail[i - SampleSize]]

TailInit ==
    /\ RangesIdle
    /\ TrackerIdle
    /\ JobIdle
    /\ UploadIdle
    /\ global_schema = EmptyMap
    /\ \E head \in HeadValues, n \in 1..MaxTail : \E tail \in [1..n -> TailPool] :
           batch = long_batch(head, tail)
    /\ cleaned = <<>>
    /\ schema_before = EmptyMap
    /\ npc = "building"

SpecTail == TailInit /\ [][FreshNext]_vars

\* C32: normalization never turns data into null: for every record and
\* field of a batch, the records after the sampled prefix included, a
\* non-null raw value is rewritten to a non-null value.
C32_NoValueBecomesNull ==
    npc = "normalized" =>
        \A i \in 1..Len(batch) : \A f \in DOMAIN batch[i] :
            batch[i][f] # PyNone => cleaned[i][f] # PyNone

(***************************************************************************)
(* Specification of one GCSUploader instance normalising whole batches,    *)
(* one call after the other, in any order.                                 *)
(***************************************************************************)
MaxOrder == 3       \* batches whose orders are compared

\* the batches: their strategies for the field a are integer, string,
\* json_object, null, json_string, float and mostly_integer, or it is absent
OrderPool ==
    { <<Rec1("a", PyInt(1))>>,
      <<Rec1("a", PyStr("two"))>>,
      <<Rec2("a", PyDict(1, "{\"k\": 1}"), "b", PyInt(1))>>,
      <<Rec1("a", PyNone)>>,
      <<Rec1("a", PyInt(1)), Rec2("a", PyDict(1, "{\"k\": 1}"), "b", PyNone)>>,
      <<Rec2("a", PyFloat(30), "b", PyBool(TRUE))>>,
      <<Rec1("a", PyInt(1)), Rec1("a", PyInt(2)), Rec1("a", PyInt(1)), Rec1("a", PyStr("x"))>>,
      <<Rec2("_id", PyInt(7), "b", PyStr("x"))>> }

O_Clean(records) ==
    /\ npc \in {"building", "normalized"}
    /\ batch' = records
    /\ \E res \in {_clean_records_for_parquet(records, global_schema)} :
           /\ cleaned' = res.cleaned
           /\ global_schema' = res.schema
    /\ schema_before' = global_schema
    /\ npc' = "normalized"
    /\ UNCHANGED <<rangeVars, trackerVars, jobVars, uploadVars>>

OrderNext == \E records \in OrderPool : O_Clean(records)

SpecOrder == NormInit /\ [][OrderNext]_vars

\* global_schema after the uploader, holding schema, has normalised the
\* batches of the sequence one after the other
RECURSIVE schema_after(_, _)
schema_after(schema, batches) ==
    IF batches = <<>> THEN schema
    ELSE schema_after(_clean_records_for_parquet(Head(batches), schema).schema, Tail(batches))

\* the orders in which the batches of a set can be processed
orders_of(batches) == {p \in [1..Cardinality(batches) -> batches] : \A i, j \in DOMAIN p : p[i] = p[j] => i = j}

\* C35: schema conflict resolution is idempotent, commutative and
\* associative over the ranked strategies and returns the one with the
\* smaller rank number; and whatever an uploader has normalised so far, the
\* global_schema it holds after normalising a set of batches is the same for
\* every order in which the batches are processed.
C35_SchemaIndependentOfOrder ==
    /\ \A x, y, z \in DOMAIN strategy_priority :
           /\ _resolve_schema_conflict(x, x) = x
           /\ _resolve_schema_conflict(x, y) = _resolve_schema_conflict(y, x)
           /\ _resolve_schema_conflict(_resolve_schema_conflict(x, y), z) = _resolve_schema_conflict(x, _resolve_schema_conflict(y, z))
           /\ _resolve_schema_conflict(x, y) \in {x, y}
           /\ strategy_priority[_resolve_schema_conflict(x, y)] <= strategy_priority[x]
    /\ \A batches \in SUBSET OrderPool : Cardinality(batches) <= MaxOrder =>
           \E one \in {schema_after(global_schema, CHOOSE q \in orders_of(batches) : TRUE)} :
               \A p \in orders_of(batches) : schema_after(global_schema, p) = one

\* an uploader holding integer for the field a, two batches of the pool
\* that move it to different strategies when processed alone, and the
\* schema that either order of the two ends with
C35_Witness ==
    /\ npc = "normalized"
    /\ global_schema = [a |-> "integer"]
    /\ \E first, second \in OrderPool :
           /\ schema_after(global_schema, <<first>>)["a"] = "mostly_integer"
           /\ schema_after(global_schema, <<second>>)["a"] = "json_string"
           /\ schema_after(global_schema, <<first, second>>)["a"] = "json_string"
           /\ schema_after(global_schema, <<second, first>>)["a"] = "json_string"

(***************************************************************************)
(* Specification of the record-level counters of one ProgressTracker and   *)
(* of monitor.py reading the same Redis.                                   *)
(***************************************************************************)
MaxCounter == 3     \* the counters stay within 0..MaxCounter

\* f"{prefix}:{kind}", kind one of total, processed, failed.  The tracker's
\* prefix is its job_key "mongo2gcs:<t>"; the monitor's is "mongo2gcs",
\* written here as the job -1.
counter_key(job, kind) == [job |-> job, kind |-> kind, chunk |-> 0]

\* int(r.get(key) or 0)
counter_read(store, key) == IF key \in DOMAIN store THEN int_of_text(store[key]) ELSE 0

\* SET key value / INCRBY key count, the new text of the key
redis_set(store, key, text) == [k \in DOMAIN store \cup {key} |-> IF k = key THEN text ELSE store[k]]

\* monitor.py, lines 38-40
monitor_progress(store) ==
    [total |-> counter_read(store, counter_key(-1, "total")),
     processed |-> counter_read(store, counter_key(-1, "processed")),
     failed |-> counter_read(store, counter_key(-1, "failed"))]

CountersInit ==
    /\ RangesIdle
    /\ NormIdle
    /\ JobIdle
    /\ UploadIdle
    /\ clock \in 0..MaxClock
    /\ t_job_key = tracker_job_key(clock)
    /\ redis = EmptyMap
    /\ t_result = EmptyMap

\* ProgressTracker.set_total_records(count)
C_SetTotalRecords ==
    /\ \E count \in 0..MaxCounter :
           redis' = redis_set(redis, counter_key(t_job_key, "total"), redis_int(count))
    /\ UNCHANGED <<clock, t_job_key, t_result, rangeVars, normVars, jobVars, uploadVars>>

\* ProgressTracker.increment_processed(count) and increment_failed(count)
C_Increment ==
    /\ \E kind \in {"processed", "failed"}, count \in 1..MaxCounter :
       \E key \in {counter_key(t_job_key, kind)} :
           /\ counter_read(redis, key) + count <= MaxCounter
           /\ redis' = redis_set(redis, key, redis_int(counter_read(redis, key) + count))
    /\ UNCHANGED <<clock, t_job_key, t_result, rangeVars, normVars, jobVars, uploadVars>>

\* one round of the monitor's loop
C_Monitor ==
    /\ t_result' = monitor_progress(redis)
    /\ UNCHANGED <<clock, redis, t_job_key, rangeVars, normVars, jobVars, uploadVars>>

CountersNext == C_SetTotalRecords \/ C_Increment \/ C_Monitor

SpecCounters == CountersInit /\ [][CountersNext]_vars

\* C22: the record-level counters the tracker writes are the keys the
\* monitor reads: whatever the tracker has set as total and added to
\* processed and failed is what the monitor observes.
C22_MonitorSeesCounters ==
    /\ monitor_progress(redis).total = counter_read(redis, counter_key(t_job_key, "total"))
    /\ monitor_progress(redis).processed = counter_read(redis, counter_key(t_job_key, "processed"))
    /\ monitor_progress(redis).failed = counter_read(redis, counter_key(t_job_key, "failed"))

(***************************************************************************)
(* The pipeline: main() and the process_chunk tasks of its process pool    *)
(***************************************************************************)
Doc(oid, body) == [_id |-> oid, body |-> body]

\* the documents collections are made of: two created in the same second,
\* one later; their fields differ in presence and in type
DocPool ==
    { Doc(ObjectId(0, 0), Rec1("a", PyInt(1))),
      Doc(ObjectId(0, 1), Rec2("a", PyStr("two"), "b", PyBool(TRUE))),
      Doc(ObjectId(2, 0), Rec2("a", PyFloat(30), "t", PyDatetime("2024-01-01"))) }

\* total_chunks = (total_count + records_per_chunk - 1) // records_per_chunk
total_chunks_of(total_count, records_per_chunk) ==
    (total_count + records_per_chunk - 1) \div records_per_chunk

QueuedTask ==
    [pc |-> "queued", job_key |-> 0, global_schema |-> EmptyMap,
     chunk_data |-> EmptyMap, result |-> EmptyMap]

ChunkIndices == DOMAIN tasks

JobInit ==
    /\ NormIdle
    /\ UploadIdle
    /\ t_job_key = 0
    /\ t_result = <<>>
    /\ clock = 0
    /\ redis = EmptyMap
    /\ collection \in SUBSET DocPool
    /\ config \in [output_format : {"parquet", "jsonl"},
                   chunk_size : 1..MaxChunkSize,
                   max_workers : 1..MaxWorkers,
                   gcs_prefix : {"mongodb_export/"}]
    /\ gcs_reachable \in BOOLEAN
    /\ total_chunks_of(Cardinality(collection), config.chunk_size) <= MaxChunks
    /\ num_chunks = 0
    /\ ranges = <<>>
    /\ rpc = "idle"
    /\ mpc = "test_connection"
    /\ m_job_key = tracker_job_key(clock)
    /\ tasks = EmptyMap
    /\ temp_files = {}
    /\ bucket = {}
    /\ gcs_calls = EmptyMap
    /\ consumed = {}
    /\ m_successful_chunks = 0
    /\ m_failed_chunks = 0
    /\ schema_info = EmptyMap
    /\ final_stats = EmptyMap

\* {**a, **b}
dict_merge(a, b) ==
    [f \in DOMAIN a \cup DOMAIN b |-> IF f \in DOMAIN b THEN b[f] ELSE a[f]]

\* ---- main(), lines 103-107: the MongoDB connection test
M_TestConnection ==
    /\ mpc = "test_connection"
    /\ \E mongo_ok \in BOOLEAN :
           mpc' = IF mongo_ok THEN "connected" ELSE "returned"
    /\ UNCHANGED <<config, gcs_reachable, m_job_key, tasks, temp_files, bucket,
                   gcs_calls, consumed, m_successful_chunks, m_failed_chunks,
                   schema_info, final_stats, rangeVars, trackerVars, normVars,
                   uploadVars>>

\* variant: main() goes on after a failed connection test
ProceedsAfterFailedTest(pc) == pc \in {"connected", "returned"}

\* lines 104-107: main() goes on only if test_connection() returned True
connection_test_passed(pc) == pc = "connected"

\* ---- main(), lines 110-120: count, number of chunks and the id ranges;
\* on an empty collection find().next() raises and main() re-raises
M_ComputeRanges ==
    /\ connection_test_passed(mpc)
    /\ LET total_count == Cardinality(collection)
           total_chunks == total_chunks_of(total_count, config.chunk_size)
       IN  IF collection = {}
           THEN /\ mpc' = "raised"
                /\ UNCHANGED <<num_chunks, ranges>>
           ELSE /\ num_chunks' = total_chunks
                /\ ranges' = get_id_ranges(collection, total_chunks)
                /\ mpc' = "ranges_computed"
    /\ UNCHANGED <<collection, rpc, config, gcs_reachable, m_job_key, tasks,
                   temp_files, bucket, gcs_calls, consumed,
                   m_successful_chunks, m_failed_chunks, schema_info,
                   final_stats, trackerVars, normVars, uploadVars>>

\* ---- main(), line 123: initialize_job; a Redis error makes main() raise
M_InitializeJob ==
    /\ mpc = "ranges_computed"
    /\ \E redis_ok \in BOOLEAN :
           IF redis_ok
           THEN /\ redis' = initialize_job(redis, m_job_key, num_chunks,
                                           Cardinality(collection), clock)
                /\ mpc' = "job_initialized"
           ELSE /\ mpc' = "raised"
                /\ UNCHANGED redis
    /\ UNCHANGED <<clock, t_job_key, t_result, config, gcs_reachable, m_job_key,
                   tasks, temp_files, bucket, gcs_calls, consumed,
                   m_successful_chunks, m_failed_chunks, schema_info,
                   final_stats, rangeVars, normVars, uploadVars>>

\* variant: the last range is not submitted
SubmitsAllButLast(id_ranges) == 0..(Len(id_ranges) - 2)

\* line 164: for chunk_index, (start_id, end_id) in enumerate(id_ranges)
submitted_indices(id_ranges) == 0..(Len(id_ranges) - 1)

\* ---- main(), lines 155-166: one task is submitted per range
M_Dispatch ==
    /\ mpc = "job_initialized"
    /\ tasks' = [chunk_index \in submitted_indices(ranges) |-> QueuedTask]
    /\ gcs_calls' = [chunk_index \in submitted_indices(ranges) |-> 0]
    /\ mpc' = "collecting"
    /\ UNCHANGED <<config, gcs_reachable, m_job_key, temp_files, bucket, consumed,
                   m_successful_chunks, m_failed_chunks, schema_info,
                   final_stats, rangeVars, trackerVars, normVars, uploadVars>>

\* ---- process_chunk, lines 36-40: a free worker takes the next task of the
\* queue and builds its own exporter, uploader and tracker
W_Start(c) ==
    /\ c \in ChunkIndices
    /\ tasks[c].pc = "queued"
    /\ \A b \in ChunkIndices : b < c => tasks[b].pc # "queued"
    /\ Cardinality({b \in ChunkIndices : tasks[b].pc = "started"}) < config.max_workers
    /\ tasks' = [tasks EXCEPT ![c] =
                    [pc |-> "started", job_key |-> tracker_job_key(clock),
                     global_schema |-> EmptyMap, chunk_data |-> EmptyMap,
                     result |-> EmptyMap]]
    /\ UNCHANGED <<config, gcs_reachable, mpc, m_job_key, temp_files, bucket,
                   gcs_calls, consumed, m_successful_chunks, m_failed_chunks,
                   schema_info, final_stats, rangeVars, trackerVars, normVars,
                   uploadVars>>

\* variant: the chunk is marked completed whatever the upload returned
StatusAlwaysCompleted(success) == "completed"

\* the status process_chunk records after the upload
status_of_upload(success) == IF success THEN "completed" ELSE "failed"

\* ---- process_chunk, lines 50-79: what the task does with the outcome of
\* export_chunk and, when the export succeeded, of upload_chunk_to_gcs.
\*   redis_ok, redis_ok2   whether the status update, and the one of the
\*                         exception handler, reach Redis
process_chunk(c, task, now, chunk_data, up, redis_ok, redis_ok2) ==
    LET uploaded == chunk_data.success
        status == IF ~chunk_data.success THEN "failed"
                  ELSE status_of_upload(up.result.success)
        kwargs == IF ~chunk_data.success THEN [error |-> chunk_data.error]
                  ELSE IF up.result.success
                       THEN [gcs_path |-> up.result.gcs_path,
                             file_size_mb |-> redis_int(up.result.file_size_mb)]
                       ELSE [error |-> up.result.error]
        error_msg == "Error processing chunk " \o NatText(c) \o ": redis error"
    IN  [schema |-> IF uploaded THEN up.schema ELSE task.global_schema,
         files |-> IF uploaded THEN up.files ELSE {},
         objects |-> IF uploaded THEN up.objects ELSE {},
         calls |-> IF uploaded THEN up.calls ELSE 0,
         store |-> IF redis_ok
                   THEN update_chunk_status(redis, task.job_key, c, status,
                                            kwargs, now)
                   ELSE IF redis_ok2
                   THEN update_chunk_status(redis, task.job_key, c, "failed",
                                            [error |-> error_msg], now)
                   ELSE redis,
         pc |-> IF redis_ok \/ redis_ok2 THEN "done" ELSE "raised",
         result |-> IF redis_ok
                    THEN (IF ~chunk_data.success THEN chunk_data
                          ELSE dict_merge(chunk_data, up.result))
                    ELSE IF redis_ok2
                    THEN [chunk_index |-> c, success |-> FALSE,
                          error |-> error_msg]
                    ELSE EmptyMap]

\* what one run of process_chunk can meet; a flag is fixed where the code
\* never reads it (e.g. the upload outcome after a failed write)
Environments ==
    {e \in [cursor_ok : BOOLEAN, memory_over : BOOLEAN, write_ok : BOOLEAN,
            partial : BOOLEAN, gcs_ok : BOOLEAN, redis_ok : BOOLEAN,
            redis_ok2 : BOOLEAN] :
        /\ ~e.cursor_ok => (~e.memory_over /\ e.write_ok /\ e.gcs_ok)
        /\ e.write_ok => ~e.partial
        /\ ~e.write_ok => e.gcs_ok
        /\ e.redis_ok => e.redis_ok2}

\* ---- process_chunk, lines 42-81, run by the worker holding task c: the
\* ids are parsed back, the chunk is exported and uploaded, the status is
\* written and the result returned.
\*   cursor_ok, memory_over      what export_chunk meets
\*   write_ok, partial, gcs_ok   what upload_chunk_to_gcs meets
W_Finish(c) ==
    /\ c \in ChunkIndices
    /\ tasks[c].pc = "started"
    /\ \E e \in Environments :
       \E start_id \in {ObjectId_of_str(oid_str(ranges[c + 1][1]))},
          end_id \in {ObjectId_of_str(oid_str(ranges[c + 1][2]))} :
       \E chunk_data \in {export_chunk(collection, start_id, end_id, c,
                                       e.cursor_ok, e.memory_over)} :
       \E up \in {upload_chunk_to_gcs(tasks[c].global_schema, chunk_data,
                                      config.output_format, config.gcs_prefix,
                                      e.write_ok, e.partial,
                                      e.gcs_ok /\ gcs_reachable)} :
       \E out \in {process_chunk(c, tasks[c], clock, chunk_data, up,
                                 e.redis_ok, e.redis_ok2)} :
            /\ tasks' = [tasks EXCEPT ![c] =
                            [pc |-> out.pc, job_key |-> tasks[c].job_key,
                             global_schema |-> out.schema,
                             chunk_data |-> chunk_data, result |-> out.result]]
            /\ temp_files' = temp_files \cup out.files
            /\ bucket' = {o \in bucket : \A n \in out.objects : n.path # o.path}
                            \cup out.objects
            /\ gcs_calls' = [gcs_calls EXCEPT ![c] = @ + out.calls]
            /\ redis' = out.store
            /\ diagnostics' = IF chunk_data.success /\ up.diagnostics
                              THEN diagnostics \cup {c} ELSE diagnostics
    /\ UNCHANGED <<clock, t_job_key, t_result, config, gcs_reachable, mpc, m_job_key, consumed,
                   m_successful_chunks, m_failed_chunks, schema_info,
                   final_stats, rangeVars, normVars,
                   u_chunk_data, u_result>>

\* variant: a future that raised is logged but not counted
TallyIgnoresRaised(task) ==
    IF task.pc = "raised" THEN [successful |-> 0, failed |-> 0]
    ELSE IF task.result.success THEN [successful |-> 1, failed |-> 0]
    ELSE [successful |-> 0, failed |-> 1]

\* lines 172-189: what one consumed future adds to the two counters; a
\* result that raised reaches the except clause before anything was added.
\* (The rate shown on the progress bar divides by the time elapsed since
\* start_time, which process_chunk has made positive.)
tally(task) ==
    IF task.pc = "done" /\ task.result.success
    THEN [successful |-> 1, failed |-> 0]
    ELSE [successful |-> 0, failed |-> 1]

\* ---- main(), lines 170-190: the next completed future is consumed
M_Collect(c) ==
    /\ mpc = "collecting"
    /\ c \in ChunkIndices \ consumed
    /\ tasks[c].pc \in {"done", "raised"}
    /\ consumed' = consumed \cup {c}
    /\ m_successful_chunks' = m_successful_chunks + tally(tasks[c]).successful
    /\ m_failed_chunks' = m_failed_chunks + tally(tasks[c]).failed
    /\ UNCHANGED <<config, gcs_reachable, mpc, m_job_key, tasks, temp_files, bucket,
                   gcs_calls, schema_info, final_stats, rangeVars,
                   trackerVars, normVars, uploadVars>>

\* variant: finalization reads the schema of one of the workers' uploaders
ExporterReusesUploader(uploaders) ==
    IF uploaders = {} THEN EmptyMap ELSE CHOOSE g \in uploaders : TRUE

\* line 203: gcs_uploader = GCSUploader(config); its global_schema
finalization_schema(uploaders) == EmptyMap

\* variant: the schema is exported whatever the chunks returned
SchemaExportAlways(successful_chunks) == TRUE

\* line 200: if successful_chunks > 0
schema_export_due(successful_chunks) == successful_chunks > 0

\* variant: the loop is left at the first result
LoopEndsAtFirstResult(done, submitted) == done # {}

\* line 170: for future in as_completed(future_to_chunk) ends when every
\* submitted future has been yielded; no timeout is passed
as_completed_exhausted(done, submitted) == done = submitted

\* ---- main(), lines 192-207: statistics and the schema export
M_ExportSchema ==
    /\ mpc = "collecting"
    /\ as_completed_exhausted(consumed, ChunkIndices)
    /\ schema_info' =
          IF schema_export_due(m_successful_chunks)
          THEN export_schema_info(finalization_schema(
                   {tasks[c].global_schema : c \in ChunkIndices}))
          ELSE schema_info
    /\ mpc' = "finalizing"
    /\ UNCHANGED <<config, gcs_reachable, m_job_key, tasks, temp_files, bucket,
                   gcs_calls, consumed, m_successful_chunks, m_failed_chunks,
                   final_stats, rangeVars, trackerVars, normVars, uploadVars>>

\* ---- main(), lines 209-211: the final progress statistics
M_GetProgress ==
    /\ mpc = "finalizing"
    /\ \E redis_ok \in BOOLEAN :
           IF redis_ok
           THEN /\ final_stats' = get_progress(redis, m_job_key)
                /\ mpc' = "finished"
           ELSE /\ mpc' = "raised"
                /\ UNCHANGED final_stats
    /\ UNCHANGED <<config, gcs_reachable, m_job_key, tasks, temp_files, bucket,
                   gcs_calls, consumed, m_successful_chunks, m_failed_chunks,
                   schema_info, rangeVars, trackerVars, normVars, uploadVars>>

\* ---- time passes
Tick ==
    /\ clock < MaxClock
    /\ mpc \notin {"returned", "raised", "finished"}
    /\ clock' = clock + 1
    /\ UNCHANGED <<redis, t_job_key, t_result, rangeVars, normVars,
                   jobVars, uploadVars>>

Next ==
    \/ M_TestConnection
    \/ M_ComputeRanges
    \/ M_InitializeJob
    \/ M_Dispatch
    \/ \E c \in 0..(MaxChunks - 1) : W_Start(c)
    \/ \E c \in 0..(MaxChunks - 1) : W_Finish(c)
    \/ \E c \in 0..(MaxChunks - 1) : M_Collect(c)
    \/ M_ExportSchema
    \/ M_GetProgress
    \/ Tick

Spec == JobInit /\ [][Next]_vars

\* The executor runs every submitted task to its end and as_completed yields
\* every future, so the steps of the workers and of the collecting loop are
\* taken once they are possible.
Fairness ==
    /\ \A c \in 0..(MaxChunks - 1) : WF_vars(W_Start(c)) /\ WF_vars(W_Finish(c)) /\ WF_vars(M_Collect(c))
    /\ WF_vars(M_ExportSchema)

FairSpec == Spec /\ Fairness

(***************************************************************************)
(* Specification of one GCSUploader instance called directly with chunks   *)
(***************************************************************************)
\* the records of the chunks: the documents of DocPool as export_chunk
\* returns them
UploadPool == {exported_record(d) : d \in DocPool}

UploadBatches == UNION {[1..n -> UploadPool] : n \in 0..MaxUploadBatch}

\* what one upload_chunk_to_gcs call can meet
UploadEnvironments ==
    {[write_ok |-> e.write_ok, partial |-> e.partial, gcs_ok |-> e.gcs_ok] :
        e \in Environments}

UploadInit ==
    /\ RangesIdle
    /\ TrackerIdle
    /\ global_schema = EmptyMap
    /\ batch = <<>>
    /\ cleaned = <<>>
    /\ schema_before = EmptyMap
    /\ npc = "constructed"
    /\ config \in [output_format : {"parquet", "jsonl"}, chunk_size : {1},
                   max_workers : {1}, gcs_prefix : {"mongodb_export/"}]
    /\ gcs_reachable = TRUE
    /\ mpc = "idle"
    /\ m_job_key = 0
    /\ tasks = <<>>
    /\ temp_files = {}
    /\ bucket = {}
    /\ gcs_calls = EmptyMap
    /\ consumed = {}
    /\ m_successful_chunks = 0
    /\ m_failed_chunks = 0
    /\ schema_info = <<>>
    /\ final_stats = <<>>
    /\ u_chunk_data = EmptyMap
    /\ u_result = EmptyMap
    /\ diagnostics = {}

\* one call of upload_chunk_to_gcs, for a chunk index not uploaded before
U_Upload ==
    /\ Cardinality(DOMAIN gcs_calls) < MaxUploads
    /\ \E chunk_index \in (0..(MaxChunks - 1)) \ DOMAIN gcs_calls,
          records \in UploadBatches, e \in UploadEnvironments :
       \E chunk_data \in {[chunk_index |-> chunk_index, records |-> records,
                           record_count |-> Len(records), success |-> TRUE]} :
       \E up \in {upload_chunk_to_gcs(global_schema, chunk_data,
                                      config.output_format, config.gcs_prefix,
                                      e.write_ok, e.partial, e.gcs_ok)} :
            /\ u_chunk_data' = chunk_data
            /\ u_result' = up.result
            /\ schema_before' = global_schema
            /\ global_schema' = up.schema
            /\ temp_files' = temp_files \cup up.files
            /\ bucket' = {o \in bucket : \A n \in up.objects : n.path # o.path}
                            \cup up.objects
            /\ gcs_calls' = [i \in DOMAIN gcs_calls \cup {chunk_index} |->
                                IF i = chunk_index THEN up.calls ELSE gcs_calls[i]]
            /\ diagnostics' = IF up.diagnostics
                              THEN diagnostics \cup {chunk_index} ELSE diagnostics
    /\ npc' = "uploaded"
    /\ UNCHANGED <<batch, cleaned, config, gcs_reachable, mpc, m_job_key, tasks, consumed,
                   m_successful_chunks, m_failed_chunks, schema_info,
                   final_stats, rangeVars, trackerVars>>

UploadNext == U_Upload

SpecUpload == UploadInit /\ [][UploadNext]_vars

\* the local files upload_chunk_to_gcs may create for a chunk
chunk_temp_files(chunk_index) ==
    {"temp/" \o chunk_file_name(chunk_index, ext) : ext \in {"parquet", "jsonl"}}

\* the destination paths of a chunk
chunk_gcs_paths(chunk_index) ==
    {config.gcs_prefix \o chunk_file_name(chunk_index, ext) :
        ext \in {"parquet", "jsonl"}}

\* C10: upload_chunk_to_gcs called with zero records returns success = false
\* with the reason "No records to upload", creates no local file and makes no
\* call to the destination store.
C10_EmptyChunkNotUploaded ==
    (npc = "uploaded" /\ u_chunk_data.records = <<>>) =>
        /\ u_result.success = FALSE
        /\ u_result.error = "No records to upload"
        /\ temp_files \cap chunk_temp_files(u_chunk_data.chunk_index) = {}
        /\ gcs_calls[u_chunk_data.chunk_index] = 0
        /\ \A o \in bucket : o.path \notin chunk_gcs_paths(u_chunk_data.chunk_index)
        /\ global_schema = schema_before

\* the call was made with zero records, for the Parquet format and a chunk
\* index other than the first
C10_Witness ==
    /\ npc = "uploaded"
    /\ u_chunk_data.records = <<>>
    /\ u_chunk_data.chunk_index > 0
    /\ config.output_format = "parquet"

(***************************************************************************)
(* Properties of the pipeline                                              *)
(***************************************************************************)
\* the fields occurring in the records of the objects of a bucket
written_fields(objects) ==
    UNION {UNION {DOMAIN o.content[i] : i \in 1..Len(o.content)} : o \in objects}

\* C2: all chunk files produced by one job encode a given field with the same
\* normalization strategy: for any two chunks of the job that both contain
\* field f, the strategy used to rewrite f in the two output files is
\* identical.
C2_SameStrategyAcrossChunks ==
    \A o1, o2 \in bucket :
        \A f \in DOMAIN o1.strategies \cap DOMAIN o2.strategies :
            o1.strategies[f] = o2.strategies[f]

\* C3: the job identifier is chosen once and is the one every worker uses: a
\* chunk status written by a worker's tracker is stored under the
\* orchestrator's job key, so once every chunk has been processed (each task
\* has written its status and returned) the orchestrator's get_progress()
\* reports completed_chunks + failed_chunks = total_chunks and
\* pending_chunks = 0.
C3_WorkersUseJobKey ==
    (mpc = "finished" /\ \A c \in ChunkIndices : tasks[c].pc = "done") =>
        /\ \A c \in ChunkIndices : ChunkKey(m_job_key, c) \in DOMAIN redis
        /\ final_stats # EmptyMap
        /\ final_stats.completed_chunks + final_stats.failed_chunks
               = final_stats.total_chunks
        /\ final_stats.pending_chunks = 0

\* C6: at job finalization with at least one successful chunk, the exported
\* schema document contains the resolved field->strategy mapping of the job:
\* every field that occurred in a successfully written chunk appears in
\* field_strategies, and total_fields equals the number of such fields.
C6_SchemaDocumentHasJobFields ==
    (mpc \in {"finalizing", "finished"} /\ m_successful_chunks > 0) =>
        /\ schema_info # EmptyMap
        /\ written_fields(bucket) \subseteq DOMAIN schema_info.field_strategies
        /\ schema_info.total_fields = Cardinality(written_fields(bucket))

\* C7: after upload_chunk_to_gcs returns for a chunk, in every outcome (upload
\* succeeded, upload raised, serialization raised), no local temporary file
\* for that chunk remains on disk.
C7_NoTempFileAfterUpload ==
    \A c \in ChunkIndices :
        tasks[c].pc \in {"done", "raised"} =>
            temp_files \cap chunk_temp_files(c) = {}

\* C8: every chunk whose task has ended has a terminal status (completed or
\* failed) recorded in the progress store, under the key its worker's tracker
\* writes to.
C8_EndedTaskHasTerminalStatus ==
    \A c \in ChunkIndices :
        tasks[c].pc \in {"done", "raised"} =>
            chunk_status_read(redis, tasks[c].job_key, c) \in {"completed", "failed"}

\* the six decimal digits of an index below 10^6, most significant first
SixDigits(i) ==
    Digit[((i \div 100000) % 10) + 1] \o Digit[((i \div 10000) % 10) + 1]
        \o Digit[((i \div 1000) % 10) + 1] \o Digit[((i \div 100) % 10) + 1]
        \o Digit[((i \div 10) % 10) + 1] \o Digit[(i % 10) + 1]

\* {prefix}chunk_{index zero-padded to 6 digits}.{ext}
expected_path(prefix, index, ext) ==
    prefix \o "chunk_" \o SixDigits(index) \o "." \o ext

\* the task of chunk c returned the result of a successful upload
upload_succeeded(c) ==
    /\ tasks[c].pc = "done"
    /\ "gcs_path" \in DOMAIN tasks[c].result
    /\ tasks[c].result.success

\* C11: the destination path of a chunk is {prefix}chunk_{index zero-padded
\* to 6 digits}.{ext}, a function of the configured prefix, the chunk index
\* and the output format only, whatever the order in which the chunks are
\* processed (index 42 gives chunk_000042); two chunks with distinct indices
\* of one job never get the same destination path.
C11_DestinationPath ==
    /\ \A c \in ChunkIndices :
        upload_succeeded(c) =>
            /\ tasks[c].result.gcs_path =
                   expected_path(config.gcs_prefix, c, config.output_format)
            /\ \E o \in bucket : o.path = tasks[c].result.gcs_path
            /\ \A d \in ChunkIndices \ {c} :
                   upload_succeeded(d) =>
                       tasks[d].result.gcs_path # tasks[c].result.gcs_path
    /\ \A o \in bucket :
        \E c \in ChunkIndices :
            o.path = expected_path(config.gcs_prefix, c, config.output_format)
    /\ chunk_file_name(42, config.output_format)
           = "chunk_000042." \o config.output_format

\* two chunks of one job were uploaded, the second one first
C11_Witness ==
    /\ ChunkIndices = {0, 1}
    /\ upload_succeeded(0)
    /\ upload_succeeded(1)
    /\ tasks[1].result.gcs_path = "mongodb_export/chunk_000001.parquet"
    /\ redis[ChunkKey(tasks[1].job_key, 1)].updated_at
           # redis[ChunkKey(tasks[0].job_key, 0)].updated_at
    /\ redis[ChunkKey(tasks[1].job_key, 1)].updated_at = redis_float(0)

\* C15: every record written to one output file has the identical field set,
\* the union of the fields of the file's records, whichever the output format
\* (parquet or jsonl).
C15_OneFieldSetPerFile ==
    \A o \in bucket : \A i \in 1..Len(o.content) :
        DOMAIN o.content[i] = written_fields({o})

\* the chunks whose task returned a result with success = True
succeeded_chunks == {c \in ChunkIndices : tasks[c].pc = "done" /\ tasks[c].result.success}

\* C16: chunk failures never fail the job.  Whatever the chunks return or
\* raise, main() leaves its collecting loop only into finalization (never by
\* raising) and does reach it; there every future has been consumed, each
\* counted once as successful or failed, and the schema export has been made
\* if and only if at least one chunk succeeded.
C16_ChunkFailuresDoNotFailJob ==
    /\ [][mpc = "collecting" => mpc' \in {"collecting", "finalizing"}]_vars
    /\ [](mpc = "finalizing" =>
            /\ consumed = ChunkIndices
            /\ m_successful_chunks = Cardinality(succeeded_chunks)
            /\ m_failed_chunks = Cardinality(ChunkIndices \ succeeded_chunks)
            /\ (schema_info # EmptyMap) <=> (succeeded_chunks # {}))
    /\ (mpc = "collecting") ~> (mpc = "finalizing")

C16_Witness ==
    /\ mpc = "finalizing"
    /\ ChunkIndices = {0, 1}
    /\ tasks[0].pc = "raised"
    /\ succeeded_chunks = {1}
    /\ schema_info # EmptyMap

\* C17: if the MongoDB connection test fails, main() returns: it takes no
\* further step, and no ranges have been computed, no job state written to
\* Redis and no task submitted.  In every run the ranges are computed in a
\* step that follows a passed connection test and precedes the submission of
\* the tasks, and tasks exist only for computed ranges.
C17_ConnectionTestFirst ==
    /\ [](mpc = "returned" => /\ ranges = <<>>
                              /\ num_chunks = 0
                              /\ redis = EmptyMap
                              /\ tasks = EmptyMap)
    /\ [][mpc # "returned"]_vars
    /\ [][mpc = "test_connection" => /\ mpc' \in {"test_connection", "connected", "returned"}
                                     /\ UNCHANGED <<ranges, redis, tasks>>]_vars
    /\ [][ranges' # ranges => /\ mpc = "connected"
                              /\ tasks = EmptyMap
                              /\ tasks' = EmptyMap
                              /\ redis' = EmptyMap]_vars
    /\ [](tasks # EmptyMap => /\ ranges # <<>>
                              /\ DOMAIN tasks = 0..(Len(ranges) - 1)
                              /\ JobKey(m_job_key) \in DOMAIN redis)

C17_Witness ==
    /\ mpc = "returned"
    /\ Cardinality(collection) >= 2
    /\ ranges = <<>>
    /\ redis = EmptyMap
    /\ tasks = EmptyMap

\* C18: if the destination store is unreachable, the job aborts before any
\* chunk work begins: no chunk task is submitted and no task runs the
\* extraction of its range.
C18_UnreachableDestinationAborts ==
    ~gcs_reachable =>
        /\ tasks = EmptyMap
        /\ \A c \in ChunkIndices : tasks[c].pc \notin {"started", "done", "raised"}

\* C19: an extraction exception in one chunk yields a chunk_data with
\* success = False, no records and an error string; that chunk is marked
\* failed in the progress store and no upload is attempted for it.
C19_ExtractionFailureIsolated ==
    \A c \in ChunkIndices :
        (tasks[c].pc \in {"done", "raised"} /\ ~tasks[c].chunk_data.success) =>
            /\ tasks[c].chunk_data.records = <<>>
            /\ tasks[c].chunk_data.error # ""
            /\ gcs_calls[c] = 0
            /\ \A o \in bucket : o.path # expected_path(config.gcs_prefix, c, config.output_format)
            /\ chunk_status_read(redis, tasks[c].job_key, c) = "failed"

\* C20: for an empty source collection the range computation does not raise,
\* no chunk task is submitted and the run ends without a pipeline failure.
C20_EmptyCollectionZeroRanges ==
    collection = {} => (mpc # "raised" /\ tasks = EmptyMap)

\* C21: main() submits exactly one task per computed range, under the index
\* of the range in the partition, and nothing is submitted or run again: the
\* set of tasks never changes after the submission, a task that has ended
\* stays as it ended (also after a failure), and each chunk index sees at
\* most one extraction and at most one upload call.
C21_OneTaskPerRange ==
    /\ [](mpc \in {"collecting", "finalizing", "finished"} => DOMAIN tasks = 0..(Len(ranges) - 1))
    /\ [][tasks # EmptyMap => DOMAIN tasks' = DOMAIN tasks]_vars
    /\ [][\A c \in ChunkIndices : tasks[c].pc \in {"done", "raised"} => tasks'[c] = tasks[c] /\ gcs_calls'[c] = gcs_calls[c]]_vars
    /\ [][\A c \in ChunkIndices : tasks[c].pc = "started" => tasks'[c].pc \in {"started", "done", "raised"}]_vars
    /\ [](\A c \in ChunkIndices : /\ gcs_calls[c] <= 1
                                  /\ tasks[c].chunk_data # EmptyMap => tasks[c].chunk_data.chunk_index = c)

C21_Witness ==
    /\ mpc = "finalizing"
    /\ ChunkIndices = {0, 1}
    /\ Len(ranges) = 2
    /\ tasks[0].pc = "done" /\ ~tasks[0].chunk_data.success /\ gcs_calls[0] = 0
    /\ tasks[1].pc = "done" /\ tasks[1].chunk_data.success /\ ~tasks[1].result.success /\ gcs_calls[1] = 1

\* C23 (as amended): when the least and the greatest identifier carry the same
\* timestamp ts, get_id_ranges(n) returns n - 1 empty ranges [ts, ts) followed
\* by the one range [ts, ts + 1), which holds every record.
C23_SingleTimestampRanges ==
    (rpc = "done" /\ min_doc(collection)._id.ts = max_doc(collection)._id.ts) =>
        LET ts == min_doc(collection)._id.ts
        IN  /\ Len(ranges) = num_chunks
            /\ \A i \in 1..(num_chunks - 1) : ranges[i] = <<ObjectId(ts, 0), ObjectId(ts, 0)>>
            /\ ranges[num_chunks] = <<ObjectId(ts, 0), ObjectId(ts + 1, 0)>>
            /\ \A d \in collection : InRange(d._id, ranges[num_chunks])

C23_Witness ==
    /\ rpc = "done"
    /\ min_doc(collection)._id.ts = max_doc(collection)._id.ts
    /\ min_doc(collection)._id # max_doc(collection)._id
    /\ num_chunks >= 3
    /\ ranges[1] = ranges[2]
    /\ ranges[1][1] = ranges[1][2]

\* C23 as stated: with a single timestamp ts every one of the n ranges is
\* [ts, ts + 1).
C23_EveryRangeIsTheSecond ==
    (rpc = "done" /\ min_doc(collection)._id.ts = max_doc(collection)._id.ts) =>
        \A i \in 1..Len(ranges) :
            ranges[i] = <<ObjectId(min_doc(collection)._id.ts, 0), ObjectId(min_doc(collection)._id.ts + 1, 0)>>

\* the documents of the range of chunk c, and whether its export stopped at
\* a memory check before reading them all
range_docs(c) == {d \in collection : InRange(d._id, ranges[c + 1])}
truncated(c) == /\ tasks[c].pc \in {"done", "raised"}
                /\ tasks[c].chunk_data.success
                /\ Len(tasks[c].chunk_data.records) < Cardinality(range_docs(c))

\* C24: when memory is over the ceiling at a memory check (made only when
\* the number of records read is a positive multiple of the interval),
\* export_chunk stops reading and returns success = True with record_count
\* the number of records returned; the chunk goes on to the upload and, once
\* its file is in the bucket, is marked completed; the records left unread
\* are extracted by no chunk of the run.
C24_TruncatedChunkCompletes ==
    \A c \in ChunkIndices : truncated(c) =>
        /\ tasks[c].chunk_data.record_count = Len(tasks[c].chunk_data.records)
        /\ tasks[c].chunk_data.record_count > 0
        /\ tasks[c].chunk_data.record_count % MemCheckInterval = 0
        /\ \A d \in range_docs(c) :
               (\A i \in 1..Len(tasks[c].chunk_data.records) : tasks[c].chunk_data.records[i] # exported_record(d))
                   => \A b \in ChunkIndices : tasks[b].chunk_data # EmptyMap =>
                          \A i \in 1..Len(tasks[b].chunk_data.records) : tasks[b].chunk_data.records[i] # exported_record(d)
        /\ (\E o \in bucket : o.path = expected_path(config.gcs_prefix, c, config.output_format))
               => chunk_status_read(redis, tasks[c].job_key, c) = "completed"

\* C25: a failure of the progress store during a chunk status update does
\* not crash the worker: process_chunk always ends by returning a result,
\* and a chunk that was extracted and whose file was uploaded is returned to
\* main() as successful.
C25_StoreFailureTolerated ==
    \A c \in ChunkIndices :
        /\ tasks[c].pc # "raised"
        /\ (tasks[c].pc = "done" /\ tasks[c].chunk_data.success
                /\ \E o \in bucket : o.path = expected_path(config.gcs_prefix, c, config.output_format))
              => tasks[c].result.success

\* C26: whenever writing a chunk to its local file raises, in either output
\* format, the diagnostic files of the chunk are saved before the failure is
\* returned.
C26_DiagnosticsOnWriteFailure ==
    (npc = "uploaded" /\ ~u_result.success /\ u_result.error = "serialization error")
        => u_chunk_data.chunk_index \in diagnostics

\* C27: after normalization every non-null output value of a field is in
\* the representation of the field's strategy: a boolean for boolean and
\* mostly_boolean, an integer for integer and mostly_integer, a float for
\* float and mostly_float, text for string, mostly_string, json_array,
\* json_object, json_string and iso_string, whatever the raw value.
C27_OutputInTargetRepresentation ==
    npc = "normalized" =>
        \A i \in 1..Len(cleaned) : \A f \in DOMAIN cleaned[i] :
            cleaned[i][f] # PyNone =>
                CASE global_schema[f] \in {"boolean", "mostly_boolean"} -> cleaned[i][f].ty = "bool"
                  [] global_schema[f] \in {"integer", "mostly_integer"} -> cleaned[i][f].ty \in {"int", "bool"}
                  [] global_schema[f] \in {"float", "mostly_float"} -> cleaned[i][f].ty = "float"
                  [] global_schema[f] \in {"string", "mostly_string", "json_array", "json_object", "json_string", "iso_string"} -> cleaned[i][f].ty = "str"
                  [] OTHER -> TRUE

\* the key family of chunk c as its worker names it
own_key(c) == [job |-> tasks[c].job_key, kind |-> "chunk", chunk |-> c]

\* what the hash of a finished chunk holds, updated_at aside
settled_hash(c) ==
    LET stored == redis[own_key(c)]
        r == tasks[c].result
    IN  /\ stored.status = (IF r.success THEN "completed" ELSE "failed")
        /\ IF r.success
           THEN /\ DOMAIN stored = {"status", "updated_at", "gcs_path", "file_size_mb"}
                /\ stored.gcs_path = r.gcs_path
                /\ stored.file_size_mb = redis_int(r.file_size_mb)
           ELSE /\ DOMAIN stored = {"status", "updated_at", "error"}
                /\ stored.error = r.error

\* C29: workers processing distinct chunk indices write disjoint keys of the
\* progress store: a step writes the hash of one chunk only, that of the
\* worker taking the step, and leaves every other chunk's hash as it was; so
\* whatever the order of the workers' update_chunk_status calls, the hash of
\* each finished chunk holds (updated_at aside) what its own worker wrote.
C29_DisjointChunkKeys ==
    /\ [](\A c \in DOMAIN tasks : tasks[c].pc = "done" =>
              (own_key(c) \in DOMAIN redis /\ settled_hash(c)))
    /\ [][\A k \in DOMAIN redis' :
              (k.kind = "chunk" /\ hgetall(redis, k) # redis'[k]) =>
                  /\ k.chunk \in DOMAIN tasks
                  /\ k = own_key(k.chunk)
                  /\ tasks[k.chunk].pc = "started"
                  /\ tasks'[k.chunk].pc = "done"]_vars

\* two workers sharing a job key have both written, one a completed chunk
\* and one a failed chunk, the second while the first one's hash was there
C29_Witness ==
    /\ DOMAIN tasks = {0, 1}
    /\ tasks[0].pc = "done" /\ tasks[1].pc = "done"
    /\ tasks[0].job_key = tasks[1].job_key
    /\ redis[own_key(0)].status = "completed"
    /\ redis[own_key(1)].status = "failed"
    /\ float_of_text(redis[own_key(1)].updated_at) < float_of_text(redis[own_key(0)].updated_at)
\* the consumed chunks whose task returned a result with success set
consumed_successes == {c \in consumed : tasks[c].pc = "done" /\ tasks[c].result.success}

\* C30: chunk results are consumed as they complete and each dispatched chunk
\* is counted exactly once: successful_chunks + failed_chunks is the number of
\* results consumed at every point, the number of dispatched chunks at
\* finalization, and the two counts are those of the chunks' own results,
\* whatever the order of completion.
C30_EachChunkCountedOnce ==
    /\ [](/\ m_successful_chunks + m_failed_chunks = Cardinality(consumed)
          /\ m_successful_chunks = Cardinality(consumed_successes)
          /\ m_failed_chunks = Cardinality(consumed \ consumed_successes)
          /\ mpc \in {"finalizing", "finished"} =>
                 m_successful_chunks + m_failed_chunks = Cardinality(DOMAIN tasks))
    /\ [][\A c \in consumed' \ consumed :
              /\ tasks[c].pc \in {"done", "raised"}
              /\ consumed' = consumed \cup {c}]_vars

\* finalization after a success, and a task that raised, consumed first
\* although it was dispatched last
C30_Witness ==
    /\ mpc = "finalizing"
    /\ DOMAIN tasks = {0, 1}
    /\ tasks[0].pc = "done" /\ tasks[0].result.success
    /\ tasks[1].pc = "raised"
    /\ m_successful_chunks = 1
    /\ m_failed_chunks = 1
\* the tasks that have returned or raised
terminated_chunks == {c \in DOMAIN tasks : tasks[c].pc \in {"done", "raised"}}

\* C31: once the tasks are dispatched, if every task terminates (returns or
\* raises: the fairness of the workers' steps) main() leaves its collecting
\* loop and reaches finalization; and it reaches finalization only when every
\* dispatched task has terminated, so a task that never terminates keeps
\* main() in the loop for ever: there is no per-chunk timeout.
C31_FinalizesIffTasksTerminate ==
    /\ (mpc = "collecting") ~> (mpc = "finalizing" /\ terminated_chunks = DOMAIN tasks)
    /\ [](mpc \in {"finalizing", "finished"} => terminated_chunks = DOMAIN tasks)
    /\ [][(mpc = "collecting" /\ terminated_chunks # DOMAIN tasks) => mpc' = "collecting"]_vars

\* one worker, two chunks, both terminated, the second by raising
C31_Witness ==
    /\ mpc = "finalizing"
    /\ config.max_workers = 1
    /\ DOMAIN tasks = {0, 1}
    /\ tasks[0].pc = "done" /\ ~tasks[0].result.success
    /\ tasks[1].pc = "raised"
    /\ schema_info = EmptyMap
\* chunk c has terminated, its extraction returned without error and its
\* range holds no document
empty_chunk(c) ==
    /\ tasks[c].pc \in {"done", "raised"}
    /\ tasks[c].chunk_data.success
    /\ range_docs(c) = {}

\* C33: a chunk whose range yields zero records, with no extraction or
\* upload error, is recorded with status failed in the progress store and,
\* once main() has consumed it, is counted among failed_chunks.
C33_EmptyChunkCountsAsFailed ==
    \A c \in ChunkIndices : empty_chunk(c) =>
        /\ chunk_status_read(redis, tasks[c].job_key, c) = "failed"
        /\ c \in consumed =>
               /\ c \notin consumed_successes
               /\ m_failed_chunks = Cardinality(consumed \ consumed_successes)

\* the same with a progress store that took the worker's status update
C33_EmptyChunkFailedWhenStored ==
    \A c \in ChunkIndices : (empty_chunk(c) /\ tasks[c].pc = "done") =>
        /\ chunk_status_read(redis, tasks[c].job_key, c) = "failed"
        /\ gcs_calls[c] = 0
        /\ ~tasks[c].result.success
        /\ c \in consumed =>
               /\ c \notin consumed_successes
               /\ m_failed_chunks = Cardinality(consumed \ consumed_successes)
\* the status last recorded for chunk c by its worker
recorded_status(c) == chunk_status_read(redis, tasks[c].job_key, c)

\* C34: for every chunk whose process_chunk returned a result and that
\* main() has consumed, main() counted it as successful if and only if the
\* last status its worker recorded is completed, and as failed if and only
\* if that status is failed; a chunk counted successful has its file in the
\* bucket at its destination path.
C34_CountsAgreeWithRecordedStatus ==
    \A c \in consumed : tasks[c].pc = "done" =>
        /\ recorded_status(c) \in {"completed", "failed"}
        /\ (tally(tasks[c]).successful = 1) <=> (recorded_status(c) = "completed")
        /\ (tally(tasks[c]).failed = 1) <=> (recorded_status(c) = "failed")
        /\ (tally(tasks[c]).successful = 1) =>
               \E o \in bucket : o.path = expected_path(config.gcs_prefix, c, config.output_format)
        /\ m_successful_chunks = Cardinality({b \in consumed : tally(tasks[b]).successful = 1})

\* both cases: chunk 0 counted successful and recorded completed; chunk 1
\* uploaded, recorded failed by the exception handler and counted failed
C34_Witness ==
    /\ consumed = {0, 1}
    /\ tasks[0].pc = "done" /\ tasks[1].pc = "done"
    /\ recorded_status(0) = "completed" /\ m_successful_chunks = 1
    /\ recorded_status(1) = "failed" /\ m_failed_chunks = 1
    /\ \E o \in bucket : o.path = expected_path(config.gcs_prefix, 1, config.output_format)
\* C1: get_id_ranges(n), n >= 1, returns exactly n half-open ranges that are
\* contiguous (end_i = start_{i+1}) and pairwise non-overlapping, with
\* start_0 <= min_id and end_{n-1} > max_id, so that every identifier in
\* [min_id, max_id] lies in exactly one range.
C1_RangesPartition ==
    rpc = "done" =>
        LET min_id == min_doc(collection)._id
            max_id == max_doc(collection)._id
            n == num_chunks
        IN  /\ Len(ranges) = n
            /\ \A i \in 1..(n - 1) : ranges[i][2] = ranges[i + 1][1]
            /\ \A i, j \in 1..n : i # j =>
                   ~ \E oid \in ObjectIds :
                         InRange(oid, ranges[i]) /\ InRange(oid, ranges[j])
            /\ OidLE(ranges[1][1], min_id)
            /\ OidLT(max_id, ranges[n][2])
            /\ \A oid \in ObjectIds :
                   (OidLE(min_id, oid) /\ OidLE(oid, max_id)) =>
                       Cardinality({i \in 1..n : InRange(oid, ranges[i])}) = 1

\* a partition into several ranges of a collection spanning several seconds,
\* whose greatest identifier is not a bare timestamp
C1_Witness ==
    /\ rpc = "done"
    /\ Len(ranges) >= 3
    /\ max_doc(collection)._id.low > 0
    /\ max_doc(collection)._id.ts > min_doc(collection)._id.ts + 1

====
